---- MODULE Spec2Model ----
(***************************************************************************)
(* Model of the stock-tracker price cache (priceService over              *)
(* storageService and stockApiService), of the trade valuation and         *)
(* portfolio aggregation functions (tradeService, TradeMapper,             *)
(* analyticsService), of the trade store (useTradeStore over               *)
(* storageService), and of the hooks usePrice, useAsyncOperationWithRetry, *)
(* useDebounceCallback, useLocalStorage, useLocalStorageCache and          *)
(* useAsyncOperation.                                                      *)
(*                                                                         *)
(* Conventions                                                             *)
(*  - A string the code normalises (a ticker symbol) is a sequence of      *)
(*    one-character strings, so that toUpperCase and trim are computed.    *)
(*  - A nullable JavaScript value is a sequence of length 0 (null or       *)
(*    undefined) or 1 (the value).                                         *)
(*  - A trade id (a generateId() string) is a positive number.             *)
(*  - Date.now() is modelled in whole seconds: every duration the code     *)
(*    states in milliseconds is divided by 1000.                           *)
(***************************************************************************)
EXTENDS Integers, Sequences, FiniteSets, TLC

VARIABLES
    now,            \* Date.now(), in seconds
    localStorage,   \* window.localStorage: key -> stored (JSON) value
    priceCache,     \* AlphaVantageApiService.priceCache (in-memory Map)
    call,           \* the priceService.fetchPrice call being followed
    batch,          \* the priceService.fetchBatchPrices call being followed
    lastRead,       \* the last priceService.getCachedPrice call and its result
    lastClear,      \* the last priceService.clearPriceCache call and its effect
    advances,       \* number of clock advances so far
    ops,            \* number of price-service operations started so far
    quotaOk,        \* whether localStorage.setItem currently succeeds
    val,            \* valuation specification: inputs and computed views
    store,          \* useTradeStore state and the store operation being followed
    priceHook,      \* usePrice hook state and its refreshAllPrices call
    retryOp,        \* useAsyncOperationWithRetry: the executeWithRetry call
    debouncer,      \* useDebounceCallback: its timer and the calls made
    hookLS,         \* useLocalStorage: its state and the setValue call
    hooks,          \* useLocalStorage instances rendered side by side
    cacheHook,      \* useLocalStorageCache: its refs, Date.now() and the setItem call
    asyncOp,        \* useAsyncOperation: its state and the execute calls pending
    storageOp       \* the last storageService cache call and the storage before it

appVars == <<store, priceHook, retryOp, debouncer, hookLS>>

hookVars == <<hooks, cacheHook, asyncOp, storageOp>>

vars == <<now, localStorage, priceCache, call, batch, lastRead, lastClear,
          advances, ops, quotaOk, val, appVars, hookVars>>

-----------------------------------------------------------------------------
(* Bounds *)

MaxAdvances == 2
MaxOps == 2
MaxPrice == 2
MaxMockPrice == 1
MaxBatchLen == 7
MaxTrades == 2
MaxStoreOps == 3
MaxRetryLimit == 2
MaxExecutes == 3
MaxCalls == 3
MaxTime == 6
MaxSets == 3
MaxStamp == 3

-----------------------------------------------------------------------------
(* Program constants *)

CACHE_DURATION == 5 * 60 * 1000

batchSize == 5

API_TIMEOUT == 10000

priceCacheKeyPrefix == "price-"

storageCacheKeyPrefix == "stock-tracker-cache-"

-----------------------------------------------------------------------------
(* JavaScript values *)

Null == <<>>

Some(x) == <<x>>

IsNull(v) == v = <<>>

\* Milliseconds to clock ticks (seconds).
Ticks(ms) == ms \div 1000

-----------------------------------------------------------------------------
(* Strings *)

UpperChar(c) ==
    CASE c = "a" -> "A"
      [] c = "b" -> "B"
      [] OTHER -> c

\* String.prototype.toUpperCase
toUpperCase(s) == [i \in 1..Len(s) |-> UpperChar(s[i])]

RECURSIVE trimStart(_)
trimStart(s) ==
    IF s # <<>> /\ Head(s) = " " THEN trimStart(Tail(s)) ELSE s

RECURSIVE trimEnd(_)
trimEnd(s) ==
    IF s # <<>> /\ s[Len(s)] = " " THEN trimEnd(SubSeq(s, 1, Len(s) - 1)) ELSE s

\* String.prototype.trim
trim(s) == trimEnd(trimStart(s))

\* symbol.toUpperCase().trim()
normalizeSymbol(symbol) == trim(toUpperCase(symbol))

\* String.prototype.startsWith, on sequences
startsWith(s, prefix) ==
    Len(s) >= Len(prefix) /\ SubSeq(s, 1, Len(prefix)) = prefix

-----------------------------------------------------------------------------
(* window.localStorage *)

getItem(ls, key) == IF key \in DOMAIN ls THEN Some(ls[key]) ELSE Null

setItem(ls, key, value) ==
    [k \in (DOMAIN ls) \cup {key} |-> IF k = key THEN value ELSE ls[k]]

removeItem(ls, key) == [k \in (DOMAIN ls) \ {key} |-> ls[k]]

-----------------------------------------------------------------------------
(* storageService: cache entries *)

\* this.cacheKeyPrefix + key
storageKey(key) == <<storageCacheKeyPrefix>> \o key

\* saveCache(key, data, expirationMinutes); writable = FALSE is setItem
\* throwing, which the try/catch swallows.
saveCache(ls, key, data, expirationMinutes, t, writable) ==
    LET cacheItem == [data |-> data,
                      timestamp |-> t,
                      expiration |-> expirationMinutes * Ticks(60 * 1000)]
    IN IF writable THEN setItem(ls, storageKey(key), cacheItem) ELSE ls

\* loadCache(key): { data, expired }
loadCache(ls, key, t) ==
    LET stored == getItem(ls, storageKey(key))
    IN IF IsNull(stored)
       THEN [data |-> Null, expired |-> TRUE]
       ELSE LET cacheItem == stored[1]
                elapsed == t - cacheItem.timestamp
            IN [data |-> Some(cacheItem.data),
                expired |-> elapsed > cacheItem.expiration]

\* clearCache(key) with a key
clearCache(ls, key) == removeItem(ls, storageKey(key))

-----------------------------------------------------------------------------
(* stockApiService (AlphaVantageApiService) *)

\* The cache check at the head of getStockQuote: the cached price when the
\* in-memory entry is younger than CACHE_DURATION, else null.
getStockQuoteCached(pc, symbol, t) ==
    LET normalizedSymbol == toUpperCase(symbol)
    IN IF normalizedSymbol \in DOMAIN pc
          /\ (t - pc[normalizedSymbol].timestamp) < Ticks(CACHE_DURATION)
       THEN Some(pc[normalizedSymbol].price)
       ELSE Null

\* createMockQuote(symbol, price): caches the mock price at Date.now()
createMockQuote(pc, symbol, price, t) ==
    [s \in (DOMAIN pc) \cup {symbol} |->
        IF s = symbol THEN [price |-> price, timestamp |-> t] ELSE pc[s]]

\* The rest of getStockQuote once the HTTP request issued at time start has
\* settled at time t.  outcome.kind is "quote" (a Global Quote with a
\* numeric price) or "error" (the request threw, timed out, was not ok, or
\* its payload had no quote or a non-numeric price: every one of these ends
\* in createMockQuote); outcome.price is the quoted price, or the price
\* generateMockPrice draws.
\* Yields the new in-memory cache and the quote's price; it never rejects.
getStockQuoteSettled(pc, symbol, start, t, outcome) ==
    LET normalizedSymbol == toUpperCase(symbol)
    IN IF outcome.kind = "quote"
       THEN [priceCache |->
                [s \in (DOMAIN pc) \cup {normalizedSymbol} |->
                    IF s = normalizedSymbol
                    THEN [price |-> outcome.price, timestamp |-> start]
                    ELSE pc[s]],
             rejected |-> FALSE,
             price |-> outcome.price]
       ELSE [priceCache |-> createMockQuote(pc, normalizedSymbol, outcome.price, t),
             rejected |-> FALSE,
             price |-> outcome.price]

-----------------------------------------------------------------------------
(* priceService (PriceServiceImpl) *)

\* `${this.cacheKeyPrefix}${symbol}`
priceKey(symbol) == <<priceCacheKeyPrefix>> \o symbol

\* getCachedPrice(symbol)
getCachedPrice(ls, symbol, t) ==
    LET cacheKey == priceKey(toUpperCase(symbol))
        cached == loadCache(ls, cacheKey, t)
    IN IF cached.expired THEN Null ELSE cached.data

\* Mutant: the price is saved with no lifetime at all.
cachePrice_noLifetime(ls, symbol, price, t, writable) ==
    saveCache(ls, priceKey(symbol), price, 0, t, writable)

\* cachePrice(symbol, price)
cachePrice(ls, symbol, price, t, writable) ==
    saveCache(ls, priceKey(symbol), price, CACHE_DURATION, t, writable)

\* fetchPrice from the point where stockApiService.getStockPrice has
\* settled: cache and return the price, or, had the service rejected, fall
\* back to getCachedPrice.
fetchPriceAfterQuote(ls, normalizedSymbol, quote, t, writable) ==
    IF ~quote.rejected
    THEN [localStorage |-> cachePrice(ls, normalizedSymbol, quote.price, t, writable),
          result |-> Some(quote.price)]
    ELSE [localStorage |-> ls,
          result |-> getCachedPrice(ls, normalizedSymbol, t)]

\* chunkArray(array, size)
RECURSIVE chunkArray(_, _)
chunkArray(array, size) ==
    IF array = <<>>
    THEN <<>>
    ELSE IF Len(array) <= size
         THEN <<array>>
         ELSE <<SubSeq(array, 1, size)>>
              \o chunkArray(SubSeq(array, size + 1, Len(array)), size)

\* array.filter(Boolean) on strings: drops the empty ones
RECURSIVE filterNonEmpty(_)
filterNonEmpty(array) ==
    IF array = <<>>
    THEN <<>>
    ELSE IF Head(array) = <<>>
         THEN filterNonEmpty(Tail(array))
         ELSE <<Head(array)>> \o filterNonEmpty(Tail(array))

\* The keys getAllCachedSymbols collects: price entries that have not expired.
getAllCachedSymbols(ls, t) ==
    {key \in DOMAIN ls :
        /\ startsWith(key, <<storageCacheKeyPrefix, priceCacheKeyPrefix>>)
        /\ Len(key) > 2
        /\ ~loadCache(ls, Tail(key), t).expired}

\* clearPriceCache(symbol?)
clearPriceCache(ls, symbol, t) ==
    IF ~IsNull(symbol) /\ symbol[1] # <<>>
    THEN clearCache(ls, priceKey(toUpperCase(symbol[1])))
    ELSE [k \in (DOMAIN ls) \ getAllCachedSymbols(ls, t) |-> ls[k]]

-----------------------------------------------------------------------------
(* Inputs *)

\* Prices the quote API reports.
Prices == 1..MaxPrice

\* Prices generateMockPrice draws (Math.random).
MockPrices == {100 + m : m \in 1..MaxMockPrice}

\* What an HTTP request to the quote API can come back with.
HttpOutcomes ==
    {[kind |-> "quote", price |-> p] : p \in Prices}
    \cup {[kind |-> "error", price |-> m] : m \in MockPrices}

\* Symbols as callers type them.
RawSymbols == {<<"a">>, <<" ", "A">>, <<"B">>, <<" ">>}

\* The symbol lists handed to fetchBatchPrices: prefixes of a pattern that
\* repeats symbols, mixes case and padding, and contains a blank entry.
BatchPattern == <<<<"a">>, <<" ", "b">>, <<" ">>, <<"A">>, <<"B", " ">>>>

BatchInput(n) ==
    [k \in 1..n |-> BatchPattern[((k - 1) % Len(BatchPattern)) + 1]]

BatchInputs == {BatchInput(n) : n \in {0, 3, MaxBatchLen}}

\* Clock steps: just past CACHE_DURATION, and the lifetime saveCache gives
\* an entry written with CACHE_DURATION.
ClockSteps == {Ticks(CACHE_DURATION) + 1, CACHE_DURATION * Ticks(60 * 1000)}

-----------------------------------------------------------------------------
(* State *)

IdleCall ==
    [pc |-> "idle", raw |-> <<>>, refresh |-> FALSE, symbol |-> <<>>,
     threw |-> FALSE, result |-> Null, start |-> 0,
     atStart |-> [data |-> Null, expired |-> TRUE],
     quoteCalls |-> 0, http |-> 0, kind |-> "none",
     writable |-> TRUE, entryAtDone |-> Null, cleared |-> FALSE]

IdleBatch ==
    [pc |-> "idle", symbols |-> <<>>, forceRefresh |-> FALSE,
     normalizedSymbols |-> <<>>, symbolsToFetch |-> <<>>, batches |-> <<>>,
     i |-> 0, status |-> <<>>, startAt |-> <<>>, kind |-> <<>>,
     priceMap |-> <<>>, storageAtCall |-> <<>>, calledAt |-> 0]

NoRead == [valid |-> FALSE, raw |-> <<>>, at |-> 0, result |-> Null,
           loaded |-> [data |-> Null, expired |-> TRUE], age |-> 0,
           normalized |-> Null]

NoClear == [valid |-> FALSE, arg |-> Null]

PriceInit ==
    /\ now = 0
    /\ localStorage = <<>>
    /\ priceCache = <<>>
    /\ call = IdleCall
    /\ batch = IdleBatch
    /\ lastRead = NoRead
    /\ lastClear = NoClear
    /\ advances = 0
    /\ ops = 0
    /\ quotaOk = TRUE

-----------------------------------------------------------------------------
(* Time *)

\* Time passes between two events of the single-threaded event loop.  Every
\* clock step is longer than API_CONFIG.TIMEOUT, after which fetchWithTimeout
\* aborts the request, so no step is taken while a request is in flight: a
\* request settles within the second it was issued in.
Advance(d) ==
    /\ advances < MaxAdvances
    /\ d > Ticks(API_TIMEOUT)
    /\ call.pc # "inflight"
    /\ batch.pc # "await"
    /\ now' = now + d
    /\ advances' = advances + 1
    /\ UNCHANGED <<localStorage, priceCache, call, batch, lastRead, lastClear, ops, quotaOk, val, appVars, hookVars>>

\* The storage fills up (setItem starts throwing QuotaExceededError) or is
\* freed again.
QuotaChange ==
    /\ quotaOk' = ~quotaOk
    /\ UNCHANGED <<now, localStorage, priceCache, call, batch, lastRead, lastClear,
                   advances, ops, val, appVars, hookVars>>

-----------------------------------------------------------------------------
(* priceService.fetchPrice(symbol, refresh) *)

\* The call up to its first suspension: normalisation, the cache check, and
\* the synchronous head of stockApiService.getStockQuote.  When the quote
\* service answers from its in-memory cache the call completes here.
FetchPriceCall(symbol, refresh) ==
    /\ call.pc # "inflight"
    /\ ops < MaxOps
    /\ ops' = ops + 1
    /\ LET normalizedSymbol == normalizeSymbol(symbol)
           base == [IdleCall EXCEPT !.raw = symbol, !.refresh = refresh,
                                    !.symbol = normalizedSymbol,
                                    !.start = now,
                                    !.atStart = loadCache(localStorage,
                                                    priceKey(normalizedSymbol), now)]
           cached == getCachedPrice(localStorage, normalizedSymbol, now)
           memo == getStockQuoteCached(priceCache, normalizedSymbol, now)
       IN IF normalizedSymbol = <<>>
          THEN /\ call' = [base EXCEPT !.pc = "done", !.threw = TRUE]
               /\ UNCHANGED localStorage
          ELSE IF ~refresh /\ ~IsNull(cached)
          THEN /\ call' = [base EXCEPT !.pc = "done", !.result = cached,
                                       !.entryAtDone = getItem(localStorage,
                                            storageKey(priceKey(normalizedSymbol)))]
               /\ UNCHANGED localStorage
          ELSE IF ~IsNull(memo)
          THEN LET after == fetchPriceAfterQuote(localStorage, normalizedSymbol,
                                [rejected |-> FALSE, price |-> memo[1]], now, quotaOk)
               IN /\ call' = [base EXCEPT !.pc = "done", !.result = after.result,
                                          !.quoteCalls = 1, !.kind = "memo",
                                          !.writable = quotaOk,
                                          !.entryAtDone = getItem(after.localStorage,
                                               storageKey(priceKey(normalizedSymbol)))]
                  /\ localStorage' = after.localStorage
          ELSE /\ call' = [base EXCEPT !.pc = "inflight", !.quoteCalls = 1,
                                       !.http = 1]
               /\ UNCHANGED localStorage
    /\ lastRead' = NoRead
    /\ lastClear' = NoClear
    /\ UNCHANGED <<now, priceCache, batch, advances, quotaOk, val, appVars, hookVars>>

\* The HTTP request of the call settles; getStockQuote and fetchPrice run to
\* completion.
FetchPriceSettle(outcome) ==
    /\ call.pc = "inflight"
    /\ LET quote == getStockQuoteSettled(priceCache, call.symbol, call.start, now, outcome)
           after == fetchPriceAfterQuote(localStorage, call.symbol, quote, now, quotaOk)
       IN /\ priceCache' = quote.priceCache
          /\ localStorage' = after.localStorage
          /\ call' = [call EXCEPT !.pc = "done", !.result = after.result,
                                  !.kind = outcome.kind,
                                  !.writable = quotaOk,
                                  !.entryAtDone = getItem(after.localStorage,
                                       storageKey(priceKey(call.symbol)))]
    /\ lastRead' = NoRead
    /\ lastClear' = NoClear
    /\ UNCHANGED <<now, batch, advances, ops, quotaOk, val, appVars, hookVars>>

-----------------------------------------------------------------------------
(* priceService.getCachedPrice and priceService.clearPriceCache *)

\* Seconds since the entry under the cache key was written (0 without entry).
entryAge(ls, key, t) ==
    IF storageKey(key) \in DOMAIN ls THEN t - ls[storageKey(key)].timestamp ELSE 0

\* History: the price of the unexpired entry stored for a normalised symbol.
freshPrice(ls, normalizedSymbol, t) ==
    LET key == storageKey(priceKey(normalizedSymbol))
    IN IF key \in DOMAIN ls /\ t - ls[key].timestamp <= ls[key].expiration
       THEN Some(ls[key].data)
       ELSE Null

GetCachedPrice(symbol) ==
    /\ ops < MaxOps
    /\ ops' = ops + 1
    /\ lastRead' = [valid |-> TRUE, raw |-> symbol, at |-> now,
                    result |-> getCachedPrice(localStorage, symbol, now),
                    loaded |-> loadCache(localStorage, priceKey(toUpperCase(symbol)), now),
                    age |-> entryAge(localStorage, priceKey(toUpperCase(symbol)), now),
                    normalized |-> freshPrice(localStorage, normalizeSymbol(symbol), now)]
    /\ lastClear' = NoClear
    /\ UNCHANGED <<now, localStorage, priceCache, call, batch, advances, quotaOk, val, appVars, hookVars>>

ClearPriceCache(symbol) ==
    /\ ops < MaxOps
    /\ ops' = ops + 1
    /\ localStorage' = clearPriceCache(localStorage, symbol, now)
    /\ lastClear' = [valid |-> TRUE, arg |-> symbol]
    /\ lastRead' = NoRead
    /\ call' = [call EXCEPT !.cleared = TRUE]
    /\ UNCHANGED <<now, priceCache, batch, advances, quotaOk, val, appVars, hookVars>>

-----------------------------------------------------------------------------
(* priceService.fetchBatchPrices(symbols, forceRefresh) *)

\* Map.prototype.set
mapSet(m, k, v) == [x \in (DOMAIN m) \cup {k} |-> IF x = k THEN v ELSE m[x]]

\* Mutant: the cache pass sends every symbol to symbolsToFetch.
checkCache_fetchesAll(ls, symbols, t, acc) ==
    [acc EXCEPT !.symbolsToFetch = acc.symbolsToFetch \o symbols]

\* The cache pass over normalizedSymbols (forceRefresh false): cached
\* symbols go to priceMap, the others to symbolsToFetch.
RECURSIVE checkCache(_, _, _, _)
checkCache(ls, symbols, t, acc) ==
    IF symbols = <<>>
    THEN acc
    ELSE LET symbol == Head(symbols)
             cachedPrice == getCachedPrice(ls, symbol, t)
         IN checkCache(ls, Tail(symbols), t,
                IF ~IsNull(cachedPrice)
                THEN [acc EXCEPT !.priceMap = mapSet(acc.priceMap, symbol, cachedPrice[1])]
                ELSE [acc EXCEPT !.symbolsToFetch = Append(acc.symbolsToFetch, symbol)])

\* batch.map(async symbol => fetchPrice(symbol, true)) for chunk b.i, from
\* position j on: every request is started, in order, before anything else
\* runs.  A request the quote service answers from its in-memory cache is
\* complete within the same turn; the others have an HTTP request in flight.
RECURSIVE issueRequests(_, _, _, _, _, _)
issueRequests(b, ls, pc, j, t, writable) ==
    IF j > Len(b.batches[b.i])
    THEN [batch |-> b, localStorage |-> ls]
    ELSE LET symbol == normalizeSymbol(b.batches[b.i][j])
             memo == getStockQuoteCached(pc, symbol, t)
         IN IF ~IsNull(memo)
            THEN LET after == fetchPriceAfterQuote(ls, symbol,
                                [rejected |-> FALSE, price |-> memo[1]], t, writable)
                 IN issueRequests(
                        [b EXCEPT !.status[b.i][j] = "settled",
                                  !.kind[b.i][j] = "memo",
                                  !.startAt[b.i][j] = t,
                                  !.priceMap = mapSet(b.priceMap, b.batches[b.i][j],
                                                      after.result[1])],
                        after.localStorage, pc, j + 1, t, writable)
            ELSE issueRequests(
                        [b EXCEPT !.status[b.i][j] = "inflight",
                                  !.startAt[b.i][j] = t],
                        ls, pc, j + 1, t, writable)

\* Mutant: the chunk is left as soon as one of its requests has settled.
afterAllSettled_firstSettled(b) ==
    IF \A j \in 1..Len(b.batches[b.i]) : b.status[b.i][j] = "inflight"
    THEN [b EXCEPT !.pc = "await"]
    ELSE IF b.i < Len(b.batches)
         THEN [b EXCEPT !.pc = "delay"]
         ELSE [b EXCEPT !.pc = "done"]

\* Promise.allSettled(batchPromises) for chunk b.i: pending while a request
\* is in flight; then the inter-chunk delay, or the return after the last
\* chunk.
afterAllSettled(b) ==
    IF \E j \in 1..Len(b.batches[b.i]) : b.status[b.i][j] = "inflight"
    THEN [b EXCEPT !.pc = "await"]
    ELSE IF b.i < Len(b.batches)
         THEN [b EXCEPT !.pc = "delay"]
         ELSE [b EXCEPT !.pc = "done"]

\* The call up to its first suspension: normalisation, the cache pass,
\* chunking, and the requests of the first chunk.
FetchBatchPricesCall(symbols, forceRefresh) ==
    /\ batch.pc = "idle"
    /\ UNCHANGED ops
    /\ LET normalizedSymbols ==
               filterNonEmpty([k \in 1..Len(symbols) |-> normalizeSymbol(symbols[k])])
           checked ==
               IF ~forceRefresh
               THEN checkCache(localStorage, normalizedSymbols, now,
                               [priceMap |-> <<>>, symbolsToFetch |-> <<>>])
               ELSE [priceMap |-> <<>>, symbolsToFetch |-> normalizedSymbols]
           batches == chunkArray(checked.symbolsToFetch, batchSize)
           base == [IdleBatch EXCEPT
                       !.symbols = symbols,
                       !.forceRefresh = forceRefresh,
                       !.normalizedSymbols = normalizedSymbols,
                       !.symbolsToFetch = checked.symbolsToFetch,
                       !.batches = batches,
                       !.status = [c \in 1..Len(batches) |->
                                     [j \in 1..Len(batches[c]) |-> "notIssued"]],
                       !.kind = [c \in 1..Len(batches) |->
                                     [j \in 1..Len(batches[c]) |-> "none"]],
                       !.startAt = [c \in 1..Len(batches) |->
                                     [j \in 1..Len(batches[c]) |-> 0]],
                       !.priceMap = checked.priceMap,
                       !.storageAtCall = localStorage,
                       !.calledAt = now]
       IN IF normalizedSymbols = <<>> \/ checked.symbolsToFetch = <<>>
          THEN /\ batch' = [base EXCEPT !.pc = "done"]
               /\ UNCHANGED localStorage
          ELSE LET issued == issueRequests([base EXCEPT !.i = 1], localStorage,
                                           priceCache, 1, now, quotaOk)
               IN /\ batch' = afterAllSettled(issued.batch)
                  /\ localStorage' = issued.localStorage
    /\ UNCHANGED <<now, priceCache, call, lastRead, lastClear, advances, quotaOk, val, appVars, hookVars>>

\* The HTTP request of position j of the current chunk settles: the
\* request's fetchPrice runs to completion and records its price.
BatchRequestSettle(j, outcome) ==
    /\ batch.pc = "await"
    /\ j \in 1..Len(batch.batches[batch.i])
    /\ batch.status[batch.i][j] = "inflight"
    /\ LET symbol == normalizeSymbol(batch.batches[batch.i][j])
           quote == getStockQuoteSettled(priceCache, symbol,
                                         batch.startAt[batch.i][j], now, outcome)
           after == fetchPriceAfterQuote(localStorage, symbol, quote, now, quotaOk)
           settled == [batch EXCEPT
                          !.status[batch.i][j] = "settled",
                          !.kind[batch.i][j] = outcome.kind,
                          !.priceMap =
                              IF ~IsNull(after.result)
                              THEN mapSet(batch.priceMap, batch.batches[batch.i][j],
                                          after.result[1])
                              ELSE batch.priceMap]
       IN /\ priceCache' = quote.priceCache
          /\ localStorage' = after.localStorage
          /\ batch' = afterAllSettled(settled)
    /\ UNCHANGED <<now, call, lastRead, lastClear, advances, ops, quotaOk, val, appVars, hookVars>>

\* The delay between two chunks has elapsed: the requests of the next chunk
\* are started.
BatchDelayElapsed ==
    /\ batch.pc = "delay"
    /\ LET issued == issueRequests([batch EXCEPT !.i = batch.i + 1], localStorage,
                                   priceCache, 1, now, quotaOk)
       IN /\ batch' = afterAllSettled(issued.batch)
          /\ localStorage' = issued.localStorage
    /\ UNCHANGED <<now, priceCache, call, lastRead, lastClear, advances, ops, quotaOk, val, appVars, hookVars>>

-----------------------------------------------------------------------------
(* The application outside the price service, before anything has run *)

\* The store operation last made: what the caller passed, whether the
\* promise rejected and with what, whether storageService.saveTrades was
\* reached and whether its setItem threw, and the two trade lists as they
\* were before the operation
NoStoreOp ==
    [name |-> "none", id |-> 0, symbol |-> Null, quantity |-> Null,
     buyPrice |-> Null, sellPrice |-> Null, rejected |-> FALSE,
     reason |-> Null, wrote |-> FALSE, writeFailed |-> FALSE,
     tradesBefore |-> <<>>, storedBefore |-> <<>>]

\* create<TradeStoreState>(...): the initial state.  nextId is the id the
\* next generateId() call returns, count the number of operations made,
\* lostWrite whether a setItem of an operation has thrown so far, and
\* appliedPrices the price map of the last updatePrices call, if neither
\* initialize nor clearAllTrades has rebuilt the lists since.
StoreConstructed ==
    [trades |-> <<>>, filteredList |-> Null, isLoading |-> TRUE, error |-> Null,
     nextId |-> 1, count |-> 0, lostWrite |-> FALSE, appliedPrices |-> <<>>,
     op |-> NoStoreOp]

\* usePrice(): lastError, the error and isLoading of the useAsyncOperation
\* behind refreshAllPrices; and of the refreshAllPrices call followed, what
\* it found in the store, whether its batch fetch rejected, and how its
\* promise settled
PriceHookIdle ==
    [pc |-> "idle", lastError |-> Null, refreshError |-> Null,
     isRefreshLoading |-> FALSE, outcome |-> "none", batchRejected |-> FALSE,
     symbols |-> <<>>, tradesAtCall |-> <<>>]

\* useAsyncOperationWithRetry(maxRetries, retryDelay): retryCount and the
\* state of its useAsyncOperation; and of the executeWithRetry call
\* followed, its attempts counter, the number of times the operation was
\* invoked, whether every invocation failed, the delays waited, and how
\* the call settled.  executes counts the calls made.
RetryIdle ==
    [pc |-> "idle", maxRetries |-> 3, retryDelay |-> 1000, retryCount |-> 0,
     base |-> [data |-> Null, isLoading |-> FALSE, error |-> Null,
               isSuccess |-> FALSE, isError |-> FALSE],
     attempts |-> 0, invocations |-> 0, allFailed |-> TRUE, waits |-> <<>>,
     outcome |-> "none", result |-> Null, executes |-> 0]

\* useDebounceCallback(callback, delay) in a mounted component: timeoutRef
\* (the id of the timer last set), the pending timers of the event loop,
\* the time, the calls of the debounced function made and the runs
\* of the callback
DebounceIdle ==
    [mounted |-> TRUE, delay |-> 0, timeoutRef |-> Null, timers |-> <<>>,
     nextTimer |-> 1, time |-> 0, calls |-> <<>>, runs |-> <<>>]

hookKey == <<"testKey">>

sharedKey == <<"sharedKey">>

\* useLocalStorage before the component mounts: isMounted.current,
\* initialValue, the state, the 'localstorage' events dispatched, what setItem of the storage
\* does (quota), and the record of the last setValue or removeValue call.
\* count is the number of calls made.
HookLSIdle ==
    [key |-> hookKey, isMounted |-> FALSE, initialValue |-> 0, storedValue |-> 0,
     events |-> <<>>, quota |-> "room", count |-> 0,
     op |-> [name |-> "none", prevValue |-> 0, valueToStore |-> 0,
             probeThrew |-> FALSE, writeThrew |-> FALSE, eventsBefore |-> <<>>,
             storageBefore |-> <<>>]]

\* The instances of useLocalStorage that several components render at the
\* same time, and the key each one is given: result1 and result2 share a
\* key, other has a key of its own
Instances == {"result1", "result2", "other"}

keyOf(i) == IF i = "other" THEN hookKey ELSE sharedKey

NoSyncOp ==
    [name |-> "none", sender |-> "none", key |-> <<>>, valueToStore |-> 0,
     dispatched |-> FALSE, before |-> [i \in Instances |-> 0]]

\* No instance is mounted yet.  quota is what setItem of the storage does,
\* op the record of the last setValue call.
HooksIdle ==
    [inst |-> [i \in Instances |->
                 [key |-> keyOf(i), isMounted |-> FALSE, initialValue |-> 0,
                  storedValue |-> 0]],
     quota |-> "room", op |-> NoSyncOp]

NoCacheOp ==
    [name |-> "none", cacheKey |-> <<>>, wrote |-> FALSE, storageBefore |-> <<>>,
     removed |-> {}]

\* useLocalStorageCache before the component mounts: isMounted.current,
\* maxItemsRef.current, Date.now() (clock), what setItem of the storage
\* does (quota), and the record of the last setItem call
CacheHookIdle ==
    [isMounted |-> FALSE, maxItems |-> 1, clock |-> 1, quota |-> "room",
     op |-> NoCacheOp]

\* useAsyncOperation(null) in a mounted component: its state, the number
\* of execute calls started, and those whose operation has not settled
AsyncOpIdle ==
    [state |-> [data |-> Null, isLoading |-> FALSE, error |-> Null,
                isSuccess |-> FALSE, isError |-> FALSE],
     started |-> 0, pending |-> {}]

NoStorageOp == [name |-> "none", key |-> Null, before |-> <<>>]

HooksInit ==
    /\ hooks = HooksIdle
    /\ cacheHook = CacheHookIdle
    /\ asyncOp = AsyncOpIdle
    /\ storageOp = NoStorageOp

AppInit ==
    /\ store = StoreConstructed
    /\ priceHook = PriceHookIdle
    /\ retryOp = RetryIdle
    /\ debouncer = DebounceIdle
    /\ hookLS = HookLSIdle

-----------------------------------------------------------------------------
(* Specification of the price cache *)

ValIdle ==
    [pc |-> "idle", trades |-> <<>>, currentPrices |-> <<>>, via |-> "none",
     dtos |-> <<>>, performance |-> Null, list |-> Null,
     symbolPerformance |-> Null, winRate |-> Null, stats |-> Null]

Init ==
    /\ PriceInit
    /\ val = ValIdle
    /\ HooksInit
    /\ AppInit

DoAdvance == \E d \in ClockSteps : Advance(d)

DoFetchPriceCall ==
    \E symbol \in RawSymbols, refresh \in BOOLEAN : FetchPriceCall(symbol, refresh)

DoFetchPriceSettle ==
    \E outcome \in HttpOutcomes : FetchPriceSettle(outcome)

DoGetCachedPrice == \E symbol \in RawSymbols : GetCachedPrice(symbol)

DoClearPriceCache ==
    \E symbol \in {Null} \cup {Some(s) : s \in RawSymbols \cup {<<>>}} :
        ClearPriceCache(symbol)

DoFetchBatchPricesCall ==
    \E symbols \in BatchInputs, forceRefresh \in BOOLEAN :
        FetchBatchPricesCall(symbols, forceRefresh)

DoBatchRequestSettle ==
    \E j \in 1..batchSize, outcome \in HttpOutcomes : BatchRequestSettle(j, outcome)

DoBatchDelayElapsed == BatchDelayElapsed

\* The inter-chunk delay is a timer: time may pass, and the storage may fill
\* up or be freed, before it fires.
DoBatchAdvance == batch.pc = "delay" /\ \E d \in ClockSteps : Advance(d)

DoBatchQuotaChange == batch.pc = "delay" /\ QuotaChange

NextPrice ==
    \/ DoAdvance
    \/ DoFetchPriceCall
    \/ DoFetchPriceSettle
    \/ DoGetCachedPrice
    \/ DoClearPriceCache
    \/ QuotaChange

SpecPrice == Init /\ [][NextPrice]_vars

NextBatch ==
    \/ DoBatchAdvance
    \/ DoBatchQuotaChange
    \/ DoFetchBatchPricesCall
    \/ DoBatchRequestSettle
    \/ DoBatchDelayElapsed

\* The caches a fetchBatchPrices call can find: any of the two tickers may
\* have an entry in localStorage (written by cachePrice at time 0) and in the
\* quote service's in-memory cache (which a page reload empties while
\* localStorage persists, and which a failed storage write leaves ahead of
\* localStorage), and the call may come while the entries are fresh or after
\* they have expired.
SeedSymbols == {<<"A">>, <<"B">>}

seededStorage(symbols, price) ==
    [k \in {storageKey(priceKey(s)) : s \in symbols} |->
        [data |-> price, timestamp |-> 0,
         expiration |-> CACHE_DURATION * Ticks(60 * 1000)]]

seededPriceCache(symbols, price) ==
    [s \in symbols |-> [price |-> price, timestamp |-> 0]]

InitBatch ==
    /\ \E stored \in SUBSET SeedSymbols, memo \in SUBSET SeedSymbols :
          /\ localStorage = seededStorage(stored, 1)
          /\ priceCache = seededPriceCache(memo, 1)
    /\ now \in {0, CACHE_DURATION * Ticks(60 * 1000) + 1}
    /\ call = IdleCall
    /\ batch = IdleBatch
    /\ lastRead = NoRead
    /\ lastClear = NoClear
    /\ advances = 0
    /\ ops = 0
    /\ quotaOk \in BOOLEAN
    /\ val = ValIdle
    /\ HooksInit
    /\ AppInit

SpecBatch == InitBatch /\ [][NextBatch]_vars

-----------------------------------------------------------------------------
(* Trade valuation: tradeService.tradeToDTO, TradeMapper, and
   analyticsService.getPortfolioPerformance *)

\* JavaScript truthiness of an optional number / an optional string
truthy(v) == ~IsNull(v) /\ v[1] # 0

present(v) == ~IsNull(v)

\* tradeService.isTradeOpen(trade)
isTradeOpen(trade) == ~truthy(trade.sellPrice) \/ ~present(trade.sellDate)

\* tradeService.calculateGain(trade)
calculateGain(trade) ==
    IF ~truthy(trade.sellPrice)
    THEN 0
    ELSE (trade.sellPrice[1] - trade.buyPrice) * trade.quantity

\* The currentValue both converters compute: sell price, else current
\* price, else buy price, times the quantity.
positionValue(trade, currentPrice) ==
    IF truthy(trade.sellPrice)
    THEN trade.sellPrice[1] * trade.quantity
    ELSE IF truthy(currentPrice)
         THEN currentPrice[1] * trade.quantity
         ELSE trade.buyPrice * trade.quantity

\* Mutant: the gain of a trade follows the current price whenever one is
\* passed, sold or not.
tradeToDTO_marksToMarket(trade, currentPrice) ==
    [id |-> trade.id, symbol |-> trade.symbol, quantity |-> trade.quantity,
     buyPrice |-> trade.buyPrice, sellPrice |-> trade.sellPrice,
     sellDate |-> trade.sellDate,
     currentValue |-> positionValue(trade, currentPrice),
     gain |-> IF truthy(currentPrice)
              THEN (currentPrice[1] - trade.buyPrice) * trade.quantity
              ELSE calculateGain(trade),
     isOpen |-> isTradeOpen(trade)]

\* tradeService.tradeToDTO(trade, currentPrice?)  (gainPercentage, a
\* floating-point quotient, is left out of the record)
tradeToDTO(trade, currentPrice) ==
    [id |-> trade.id, symbol |-> trade.symbol, quantity |-> trade.quantity,
     buyPrice |-> trade.buyPrice, sellPrice |-> trade.sellPrice,
     sellDate |-> trade.sellDate,
     currentValue |-> positionValue(trade, currentPrice),
     gain |-> IF truthy(trade.sellPrice)
              THEN calculateGain(trade)
              ELSE IF truthy(currentPrice)
                   THEN (currentPrice[1] - trade.buyPrice) * trade.quantity
                   ELSE 0,
     isOpen |-> isTradeOpen(trade)]

\* Mutant: an open trade is valued at the current price but reports only
\* realized gain.
toDTO_realizedGainOnly(trade, currentPrice) ==
    [id |-> trade.id, symbol |-> trade.symbol, quantity |-> trade.quantity,
     buyPrice |-> trade.buyPrice, sellPrice |-> trade.sellPrice,
     sellDate |-> trade.sellDate,
     currentValue |-> positionValue(trade, currentPrice),
     gain |-> calculateGain(trade),
     isOpen |-> ~truthy(trade.sellPrice)]

\* TradeMapper.toDTO(trade, currentPrice?)
toDTO(trade, currentPrice) ==
    LET isOpen == ~truthy(trade.sellPrice)
        gain == IF truthy(trade.sellPrice)
                THEN (trade.sellPrice[1] - trade.buyPrice) * trade.quantity
                ELSE 0
        unrealizedGain == IF isOpen /\ truthy(currentPrice)
                          THEN (currentPrice[1] - trade.buyPrice) * trade.quantity
                          ELSE 0
    IN [id |-> trade.id, symbol |-> trade.symbol, quantity |-> trade.quantity,
        buyPrice |-> trade.buyPrice, sellPrice |-> trade.sellPrice,
        sellDate |-> trade.sellDate,
        currentValue |-> positionValue(trade, currentPrice),
        gain |-> IF isOpen THEN unrealizedGain ELSE gain,
        isOpen |-> isOpen]

\* currentPrices?.get(trade.symbol)
priceOf(currentPrices, symbol) ==
    IF symbol \in DOMAIN currentPrices THEN Some(currentPrices[symbol]) ELSE Null

\* TradeMapper.toDTOs(trades, currentPrices)
toDTOs(trades, currentPrices) ==
    [k \in 1..Len(trades) |->
        toDTO(trades[k], priceOf(currentPrices, trades[k].symbol))]

\* The DTOs tradeService.getTradesWithFilter builds with tradeToDTO
serviceDTOs(trades, currentPrices) ==
    [k \in 1..Len(trades) |->
        tradeToDTO(trades[k], priceOf(currentPrices, trades[k].symbol))]

\* array.reduce((sum, x) => sum + f(x), 0), over the values f has mapped
RECURSIVE sum(_)
sum(values) == IF values = <<>> THEN 0 ELSE Head(values) + sum(Tail(values))

\* tradeDTOs.filter(trade => trade.isOpen) (open = TRUE) or
\* .filter(trade => !trade.isOpen) (open = FALSE), mapped to the gains
gainsWhere(dtos, open) ==
    LET kept == SelectSeq(dtos, LAMBDA dto : dto.isOpen = open)
    IN [k \in 1..Len(kept) |-> kept[k].gain]

\* analyticsService.getPortfolioPerformance(trades: TradeDTO[])
getPortfolioPerformance(dtos) ==
    LET totalInvestment ==
            sum([k \in 1..Len(dtos) |-> dtos[k].buyPrice * dtos[k].quantity])
        currentValue ==
            sum([k \in 1..Len(dtos) |->
                    IF truthy(dtos[k].sellPrice)
                    THEN dtos[k].sellPrice[1] * dtos[k].quantity
                    ELSE IF dtos[k].currentValue # 0
                         THEN dtos[k].currentValue
                         ELSE dtos[k].buyPrice * dtos[k].quantity])
    IN [totalInvestment |-> totalInvestment,
        currentValue |-> currentValue,
        totalGain |-> currentValue - totalInvestment,
        tradeCount |-> Len(dtos),
        openTradeCount |-> Cardinality({k \in 1..Len(dtos) : dtos[k].isOpen}),
        closedTradeCount |-> Cardinality({k \in 1..Len(dtos) : ~dtos[k].isOpen}),
        realizedGain |-> sum(gainsWhere(dtos, FALSE)),
        unrealizedGain |-> sum(gainsWhere(dtos, TRUE))]

\* TradeMapper.toListResponseDTO(trades, currentPrices?)
toListResponseDTO(trades, currentPrices) ==
    LET tradeDTOs == toDTOs(trades, currentPrices)
    IN [trades |-> tradeDTOs,
        totalCount |-> Len(tradeDTOs),
        totalValue |-> sum([k \in 1..Len(tradeDTOs) |-> tradeDTOs[k].currentValue]),
        totalGain |-> sum([k \in 1..Len(tradeDTOs) |-> tradeDTOs[k].gain]),
        realizedGain |-> sum(gainsWhere(tradeDTOs, FALSE)),
        unrealizedGain |-> sum(gainsWhere(tradeDTOs, TRUE)),
        openPositions |-> Cardinality({k \in 1..Len(tradeDTOs) : tradeDTOs[k].isOpen}),
        closedPositions |-> Cardinality({k \in 1..Len(tradeDTOs) : ~tradeDTOs[k].isOpen})]

\* A quotient num / den the code computes in floating point, kept exact
ratio(num, den) == [num |-> num, den |-> den]

\* analyticsService.getWinRate(trades: TradeDTO[])
getWinRate(dtos) ==
    LET closedTrades == SelectSeq(dtos, LAMBDA trade : ~trade.isOpen)
        winningTrades == SelectSeq(closedTrades, LAMBDA trade : trade.gain > 0)
    IN IF Len(closedTrades) = 0
       THEN ratio(0, 1)
       ELSE ratio(Len(winningTrades) * 100, Len(closedTrades))

\* analyticsService.getSymbolPerformance(trades: TradeDTO[]): the entry of
\* each symbol (gainPercentage, averageHoldingPeriod and the final sort by
\* gainPercentage are left out)
getSymbolPerformance(dtos) ==
    [symbol \in {dtos[k].symbol : k \in 1..Len(dtos)} |->
        LET symbolTrades == SelectSeq(dtos, LAMBDA trade : trade.symbol = symbol)
            investment ==
                sum([k \in 1..Len(symbolTrades) |->
                        symbolTrades[k].buyPrice * symbolTrades[k].quantity])
            currentValue ==
                sum([k \in 1..Len(symbolTrades) |->
                        IF truthy(symbolTrades[k].sellPrice)
                        THEN symbolTrades[k].sellPrice[1] * symbolTrades[k].quantity
                        ELSE IF symbolTrades[k].currentValue # 0
                             THEN symbolTrades[k].currentValue
                             ELSE symbolTrades[k].buyPrice * symbolTrades[k].quantity])
            winningTrades == Len(SelectSeq(symbolTrades, LAMBDA trade : trade.gain > 0))
            totalTrades == Len(SelectSeq(symbolTrades, LAMBDA trade : truthy(trade.sellPrice)))
        IN [symbol |-> symbol,
            investment |-> investment,
            currentValue |-> currentValue,
            gain |-> currentValue - investment,
            tradeCount |-> Len(symbolTrades),
            winRate |-> IF totalTrades > 0
                        THEN ratio(winningTrades * 100, totalTrades)
                        ELSE ratio(0, 1)]]

\* trades.reduce((best, trade) => ..., null) of calculateStats: a best gain
\* of 0 is falsy and counts as -Infinity
RECURSIVE reduceBest(_, _)
reduceBest(best, dtos) ==
    IF dtos = <<>>
    THEN best
    ELSE LET trade == Head(dtos)
             replaces == IsNull(best) \/ best[1].gain = 0 \/ trade.gain > best[1].gain
         IN reduceBest(IF replaces THEN Some(trade) ELSE best, Tail(dtos))

\* The same reduction for the worst trade: a worst gain of 0 counts as
\* +Infinity
RECURSIVE reduceWorst(_, _)
reduceWorst(worst, dtos) ==
    IF dtos = <<>>
    THEN worst
    ELSE LET trade == Head(dtos)
             replaces == IsNull(worst) \/ worst[1].gain = 0 \/ trade.gain < worst[1].gain
         IN reduceWorst(IF replaces THEN Some(trade) ELSE worst, Tail(dtos))

\* tradeService.calculateStats(trades: TradeDTO[]) (totalGainPercentage and
\* averageGainPerTrade, floating-point quotients, are left out)
calculateStats(dtos) ==
    LET totalInvestment ==
            sum([k \in 1..Len(dtos) |-> dtos[k].buyPrice * dtos[k].quantity])
        totalValue ==
            sum([k \in 1..Len(dtos) |->
                    IF truthy(dtos[k].sellPrice)
                    THEN dtos[k].sellPrice[1] * dtos[k].quantity
                    ELSE IF dtos[k].currentValue # 0
                         THEN dtos[k].currentValue
                         ELSE dtos[k].buyPrice * dtos[k].quantity])
        closedTrades == SelectSeq(dtos, LAMBDA trade : truthy(trade.sellPrice))
        profitableTrades == SelectSeq(closedTrades, LAMBDA trade : trade.gain > 0)
    IN [totalInvestment |-> totalInvestment,
        totalValue |-> totalValue,
        totalGain |-> totalValue - totalInvestment,
        bestTrade |-> reduceBest(Null, dtos),
        worstTrade |-> reduceWorst(Null, dtos),
        winRate |-> IF Len(closedTrades) > 0
                    THEN ratio(Len(profitableTrades) * 100, Len(closedTrades))
                    ELSE ratio(0, 1)]

-----------------------------------------------------------------------------
(* Specification of the valuation: a trade collection and a price map are
   drawn, the converters turn the trades into DTOs, and the DTOs are
   aggregated. *)

ValSymbols == {<<"A">>, <<"B">>}

Quantities == {3}

BuyPrices == {2}

\* Below and above the buy price; 0 is a sell price
\* TradeMapper.applyUpdates accepts
SellPrices == {0, 1, 3}

SellDates == {"2024-02-01"}

\* The ids (generateId() strings in the code) are numbers; the trades of a
\* collection have distinct ids
Trades ==
    [id : 1..MaxTrades, symbol : ValSymbols, quantity : Quantities, buyPrice : BuyPrices,
     sellPrice : {Null} \cup {Some(p) : p \in SellPrices},
     sellDate : {Null} \cup {Some(d) : d \in SellDates}]

TradeLists ==
    UNION {{trades \in [1..n -> Trades] : \A k \in 1..n : trades[k].id = k} :
              n \in 0..MaxTrades}

\* Price maps: a symbol may have no current price, or one below, at or
\* above the buy price, or the price 0
CurrentPrices == [s \in ValSymbols |-> IF s = <<"A">> THEN {0, 1, 3} ELSE {2}]

PriceMaps ==
    UNION {{m \in [symbols -> 0..3] : \A s \in symbols : m[s] \in CurrentPrices[s]} :
              symbols \in SUBSET ValSymbols}

InitVal ==
    /\ HooksInit
    /\ PriceInit
    /\ AppInit
    /\ \E trades \in TradeLists, currentPrices \in PriceMaps :
          val = [ValIdle EXCEPT !.pc = "input", !.trades = trades,
                                !.currentPrices = currentPrices]

unchangedPrice ==
    UNCHANGED <<now, localStorage, priceCache, call, batch, lastRead, lastClear,
                advances, ops, quotaOk, appVars, hookVars>>

\* tradeService.getTradesWithFilter maps the trades with tradeToDTO
ServiceToDTOs ==
    /\ val.pc = "input"
    /\ val' = [val EXCEPT !.pc = "dtos", !.via = "service",
                          !.dtos = serviceDTOs(val.trades, val.currentPrices)]
    /\ unchangedPrice

\* The store maps the trades with TradeMapper.toDTOs
MapperToDTOs ==
    /\ val.pc = "input"
    /\ val' = [val EXCEPT !.pc = "dtos", !.via = "mapper",
                          !.dtos = toDTOs(val.trades, val.currentPrices)]
    /\ unchangedPrice

\* analyticsService.getPortfolioPerformance on the DTOs
GetPortfolioPerformance ==
    /\ val.pc = "dtos"
    /\ val' = [val EXCEPT !.pc = "done",
                          !.performance = Some(getPortfolioPerformance(val.dtos))]
    /\ unchangedPrice

\* TradeMapper.toListResponseDTO on the trades
ToListResponseDTO ==
    /\ val.pc = "input"
    /\ LET response == toListResponseDTO(val.trades, val.currentPrices)
       IN val' = [val EXCEPT !.pc = "done", !.via = "mapper",
                             !.dtos = response.trades,
                             !.list = Some(response)]
    /\ unchangedPrice

\* analyticsService.getSymbolPerformance on the DTOs
GetSymbolPerformance ==
    /\ val.pc = "dtos"
    /\ val' = [val EXCEPT !.pc = "done",
                          !.symbolPerformance = Some(getSymbolPerformance(val.dtos))]
    /\ unchangedPrice

\* analyticsService.getWinRate on the DTOs
GetWinRate ==
    /\ val.pc = "dtos"
    /\ val' = [val EXCEPT !.pc = "done", !.winRate = Some(getWinRate(val.dtos))]
    /\ unchangedPrice

\* tradeService.calculateStats on the DTOs
CalculateStats ==
    /\ val.pc = "dtos"
    /\ val' = [val EXCEPT !.pc = "done", !.stats = Some(calculateStats(val.dtos))]
    /\ unchangedPrice

NextVal ==
    \/ ServiceToDTOs
    \/ MapperToDTOs
    \/ GetPortfolioPerformance
    \/ ToListResponseDTO
    \/ GetSymbolPerformance
    \/ GetWinRate
    \/ CalculateStats

SpecVal == InitVal /\ [][NextVal]_vars

-----------------------------------------------------------------------------
(* Trade store: the trade methods of storageService, the TradeMapper
   validation, tradeService.createTrade / updateTrade /
   getTradesWithFilter, and the actions of useTradeStore *)

tradeStorageKey == <<"simulated-stock-trades">>

\* new Date().toLocaleDateString() at the time of the operation
Today == "2024-03-01"

\* Mutant: saveTrades lets the exception of setItem leave the method.
saveTrades_rethrows(ls, trades, writable) ==
    [storage |-> IF writable THEN setItem(ls, tradeStorageKey, trades) ELSE ls,
     threw |-> ~writable]

\* storageService.saveTrades(trades): writable = FALSE is setItem throwing,
\* which the try/catch logs and swallows.  threw tells whether an exception
\* leaves the method.  (JSON.stringify and JSON.parse map the trades of this
\* model, whose numbers are finite and whose absent fields stay absent, to
\* themselves.)
saveTrades(ls, trades, writable) ==
    [storage |-> IF writable THEN setItem(ls, tradeStorageKey, trades) ELSE ls,
     threw |-> FALSE]

\* storageService.loadTrades()
loadTrades(ls) ==
    LET stored == getItem(ls, tradeStorageKey)
    IN IF IsNull(stored) THEN <<>> ELSE stored[1]

\* const { currentValue, gain, gainPercentage, isOpen, ...domainTrade } = trade
domainTrade(trade) ==
    [id |-> trade.id, symbol |-> trade.symbol, quantity |-> trade.quantity,
     buyPrice |-> trade.buyPrice, sellPrice |-> trade.sellPrice,
     sellDate |-> trade.sellDate]

\* trades.findIndex(t => t.id === id), 1-based; 0 is the code's -1
findIndex(trades, id) ==
    IF \E k \in 1..Len(trades) : trades[k].id = id
    THEN CHOOSE k \in 1..Len(trades) :
             /\ trades[k].id = id
             /\ \A j \in 1..(k - 1) : trades[j].id # id
    ELSE 0

\* storageService.saveTradeDTO(trade)
saveTradeDTO(ls, trade, writable) ==
    saveTrades(ls, Append(loadTrades(ls), domainTrade(trade)), writable)

\* storageService.updateTradeDTO(trade): success is the value returned
updateTradeDTO(ls, trade, writable) ==
    LET trades == loadTrades(ls)
        index == findIndex(trades, trade.id)
        saved == saveTrades(ls, [trades EXCEPT ![index] = domainTrade(trade)],
                            writable)
    IN IF index = 0
       THEN [storage |-> ls, threw |-> FALSE, success |-> FALSE]
       ELSE [storage |-> saved.storage, threw |-> saved.threw, success |-> TRUE]

\* storageService.deleteTradeById(id)
deleteTradeById(ls, id, writable) ==
    LET trades == loadTrades(ls)
        filteredTrades == SelectSeq(trades, LAMBDA trade : trade.id # id)
        saved == saveTrades(ls, filteredTrades, writable)
    IN IF Len(filteredTrades) = Len(trades)
       THEN [storage |-> ls, threw |-> FALSE, success |-> FALSE]
       ELSE [storage |-> saved.storage, threw |-> saved.threw, success |-> TRUE]

\* /^[A-Z]{1,5}$/ on the characters of the model
matchesTicker(s) ==
    Len(s) \in 1..5 /\ \A i \in 1..Len(s) : s[i] \in {"A", "B"}

Math_abs(x) == IF x < 0 THEN -x ELSE x

\* TradeMapper.validateCreateDTO(dto): the errors.  (The quantities of the
\* model are whole numbers, so 'Quantity must be a whole number' is not
\* produced.)
validateCreateDTO(dto) ==
    (IF dto.symbol = <<>> \/ trim(dto.symbol) = <<>>
     THEN <<"Symbol is required">>
     ELSE IF ~matchesTicker(toUpperCase(trim(dto.symbol)))
          THEN <<"Symbol must be 1-5 letters">>
          ELSE <<>>)
    \o (IF dto.quantity = 0 \/ dto.quantity <= 0
        THEN <<"Quantity must be greater than 0">>
        ELSE <<>>)
    \o (IF dto.buyPrice = 0 \/ dto.buyPrice <= 0
        THEN <<"Buy price must be greater than 0">>
        ELSE <<>>)

\* TradeMapper.sanitizeCreateDTO(dto)
sanitizeCreateDTO(dto) ==
    [symbol |-> toUpperCase(trim(dto.symbol)),
     quantity |-> Math_abs(IF dto.quantity = 0 THEN 1 ELSE dto.quantity),
     buyPrice |-> Math_abs(dto.buyPrice)]

\* tradeService.validateTradeData(data): the errors (its pattern has the
\* flag i)
validateTradeData(data) ==
    (IF data.symbol = <<>> \/ trim(data.symbol) = <<>>
     THEN <<"Symbol is required">>
     ELSE IF ~matchesTicker(toUpperCase(trim(data.symbol)))
          THEN <<"Symbol must be 1-5 letters">>
          ELSE <<>>)
    \o (IF data.quantity = 0 \/ data.quantity <= 0
        THEN <<"Quantity must be greater than 0">>
        ELSE <<>>)
    \o (IF data.buyPrice = 0 \/ data.buyPrice <= 0
        THEN <<"Buy price must be greater than 0">>
        ELSE <<>>)

\* tradeService.createTrade(formData), with the id generateId() returns;
\* Null is the throw of 'Invalid trade data'
createTrade(formData, id) ==
    IF validateTradeData(formData) # <<>>
    THEN Null
    ELSE Some([id |-> id,
               symbol |-> trim(toUpperCase(formData.symbol)),
               quantity |-> formData.quantity,
               buyPrice |-> formData.buyPrice,
               sellPrice |-> Null,
               sellDate |-> Null])

\* tradeService.createTradeFromDTO(dto)
createTradeFromDTO(dto, id) ==
    LET trade == createTrade([symbol |-> dto.symbol, quantity |-> dto.quantity,
                              buyPrice |-> dto.buyPrice], id)
    IN IF IsNull(trade) THEN Null ELSE Some(tradeToDTO(trade[1], Null))

\* tradeService.updateTrade(id, updates, trades): Null when no trade has
\* the id
updateTrade(id, updates, trades) ==
    LET tradeIndex == findIndex(trades, id)
        existingTrade == trades[tradeIndex]
        applied ==
            [existingTrade EXCEPT
                !.sellPrice = IF present(updates.sellPrice)
                              THEN updates.sellPrice ELSE @,
                !.sellDate = IF present(updates.sellDate)
                             THEN updates.sellDate ELSE @,
                !.quantity = IF present(updates.quantity)
                             THEN updates.quantity[1] ELSE @,
                !.buyPrice = IF present(updates.buyPrice)
                             THEN updates.buyPrice[1] ELSE @]
        updatedTrade ==
            IF truthy(applied.sellPrice) /\ ~present(applied.sellDate)
            THEN [applied EXCEPT !.sellDate = Some(Today)]
            ELSE applied
    IN IF tradeIndex = 0 THEN Null ELSE Some(tradeToDTO(updatedTrade, Null))

\* tradeService.getTradesWithFilter(trades, {}, currentPrices): with the
\* empty filter, the store's initial currentFilter, no trade is filtered
\* out and the order is kept
getTradesWithFilter(trades, currentPrices) ==
    LET finalTrades == serviceDTOs(trades, currentPrices)
    IN [trades |-> finalTrades,
        totalCount |-> Len(finalTrades),
        totalValue |-> sum([k \in 1..Len(finalTrades) |-> finalTrades[k].currentValue]),
        totalGain |-> sum([k \in 1..Len(finalTrades) |-> finalTrades[k].gain]),
        openPositions |-> Cardinality({k \in 1..Len(finalTrades) : finalTrades[k].isOpen}),
        closedPositions |-> Cardinality({k \in 1..Len(finalTrades) : ~finalTrades[k].isOpen})]

\* The outcome of a store action whose catch block has run: the error is
\* stored and rethrown to the caller
thrown(st, ls, reason, wrote) ==
    [state |-> [st EXCEPT !.error = Some(reason)], storage |-> ls,
     rejected |-> TRUE, reason |-> Some(reason), wrote |-> wrote]

\* The outcome of a store action that has returned
returned(st, ls) ==
    [state |-> st, storage |-> ls, rejected |-> FALSE, reason |-> Null,
     wrote |-> TRUE]

\* useTradeStore.filterTrades(currentFilter), the filter being {}: the
\* list is rebuilt from the stored trades
filterTrades(st, ls) ==
    [st EXCEPT !.filteredList = Some(getTradesWithFilter(loadTrades(ls), <<>>)),
               !.error = Null]

\* useTradeStore.initialize()
initialize(st, ls) ==
    LET loadedTrades == loadTrades(ls)
    IN [st EXCEPT !.trades = toDTOs(loadedTrades, <<>>),
                  !.filteredList = Some(getTradesWithFilter(loadedTrades, <<>>)),
                  !.isLoading = FALSE,
                  !.error = Null]

\* useTradeStore.addTrade(tradeData)
addTrade(st, ls, tradeData, writable) ==
    LET validation == validateCreateDTO(tradeData)
        sanitizedData == sanitizeCreateDTO(tradeData)
        newTradeDTO == createTradeFromDTO(sanitizedData, st.nextId)
        saved == saveTradeDTO(ls, newTradeDTO[1], writable)
        updatedTrades == Append(st.trades, newTradeDTO[1])
    IN IF validation # <<>>
       THEN thrown(st, ls, validation, FALSE)
       ELSE IF IsNull(newTradeDTO)
            THEN thrown(st, ls, <<"Invalid trade data">>, FALSE)
            ELSE IF saved.threw
                 THEN thrown([st EXCEPT !.nextId = @ + 1], saved.storage,
                             <<"QuotaExceededError">>, TRUE)
                 ELSE returned(filterTrades([st EXCEPT !.trades = updatedTrades,
                                                       !.nextId = @ + 1],
                                            saved.storage),
                               saved.storage)

\* useTradeStore.updateTrade(tradeId, updates)
storeUpdateTrade(st, ls, tradeId, updates, writable) ==
    LET domainTrades == loadTrades(ls)
        updatedTradeDTO == updateTrade(tradeId, updates, domainTrades)
        saved == updateTradeDTO(ls, updatedTradeDTO[1], writable)
        updatedTrades ==
            [k \in 1..Len(st.trades) |->
                IF st.trades[k].id = tradeId THEN updatedTradeDTO[1] ELSE st.trades[k]]
    IN IF IsNull(updatedTradeDTO)
       THEN thrown(st, ls, <<"Trade with ID not found">>, FALSE)
       ELSE IF saved.threw
            THEN thrown(st, saved.storage, <<"QuotaExceededError">>, TRUE)
            ELSE IF ~saved.success
                 THEN thrown(st, saved.storage,
                             <<"Failed to update trade in storage">>, FALSE)
                 ELSE returned(filterTrades([st EXCEPT !.trades = updatedTrades],
                                            saved.storage),
                               saved.storage)

\* useTradeStore.deleteTrade(tradeId)
deleteTrade(st, ls, tradeId, writable) ==
    LET saved == deleteTradeById(ls, tradeId, writable)
        updatedTrades == SelectSeq(st.trades, LAMBDA trade : trade.id # tradeId)
    IN IF saved.threw
       THEN thrown(st, saved.storage, <<"QuotaExceededError">>, TRUE)
       ELSE IF ~saved.success
            THEN thrown(st, ls, <<"Trade with ID not found">>, FALSE)
            ELSE returned(filterTrades([st EXCEPT !.trades = updatedTrades],
                                       saved.storage),
                          saved.storage)

\* useTradeStore.sellTrade(tradeId, sellPrice); the catch block stores the
\* error updateTrade has rethrown once more
sellTrade(st, ls, tradeId, sellPrice, writable) ==
    IF sellPrice <= 0
    THEN thrown(st, ls, <<"Sell price must be greater than 0">>, FALSE)
    ELSE storeUpdateTrade(st, ls, tradeId,
                          [sellPrice |-> Some(sellPrice), sellDate |-> Some(Today),
                           quantity |-> Null, buyPrice |-> Null],
                          writable)

-----------------------------------------------------------------------------
(* Specification of the trade store: the operations a component makes on
   useTradeStore, over a localStorage that may hold a trade stored by an
   earlier session and whose setItem may start or stop throwing between two
   operations *)

\* A store operation, from the call to the settling of its promise: the
\* handlers have no suspension point at which another task could run.
StoreOperation(name, id, symbol, quantity, buyPrice, sellPrice, outcome) ==
    /\ store.count < MaxStoreOps
    /\ localStorage' = outcome.storage
    /\ store' = [outcome.state EXCEPT
                    !.count = @ + 1,
                    !.lostWrite = @ \/ (outcome.wrote /\ ~quotaOk),
                    !.op = [name |-> name, id |-> id, symbol |-> symbol,
                            quantity |-> quantity, buyPrice |-> buyPrice,
                            sellPrice |-> sellPrice,
                            rejected |-> outcome.rejected,
                            reason |-> outcome.reason,
                            wrote |-> outcome.wrote,
                            writeFailed |-> outcome.wrote /\ ~quotaOk,
                            tradesBefore |-> store.trades,
                            storedBefore |-> loadTrades(localStorage)]]
    /\ UNCHANGED <<now, priceCache, call, batch, lastRead, lastClear, advances,
                   ops, quotaOk, val, priceHook, retryOp, debouncer, hookLS, hookVars>>

Initialize ==
    StoreOperation("initialize", 0, Null, Null, Null, Null,
                   [returned([initialize(store, localStorage)
                                 EXCEPT !.appliedPrices = <<>>],
                             localStorage)
                       EXCEPT !.wrote = FALSE])

AddTrade(tradeData) ==
    StoreOperation("addTrade", store.nextId, Some(tradeData.symbol),
                   Some(tradeData.quantity), Some(tradeData.buyPrice), Null,
                   addTrade(store, localStorage, tradeData, quotaOk))

UpdateTrade(tradeId, updates) ==
    StoreOperation("updateTrade", tradeId, Null, updates.quantity,
                   updates.buyPrice, updates.sellPrice,
                   storeUpdateTrade(store, localStorage, tradeId, updates, quotaOk))

SellTrade(tradeId, sellPrice) ==
    StoreOperation("sellTrade", tradeId, Null, Null, Null, Some(sellPrice),
                   sellTrade(store, localStorage, tradeId, sellPrice, quotaOk))

DeleteTrade(tradeId) ==
    StoreOperation("deleteTrade", tradeId, Null, Null, Null, Null,
                   deleteTrade(store, localStorage, tradeId, quotaOk))

\* What a caller passes to addTrade: well-formed data (a symbol in lower
\* case or padded with blanks is well-formed), and data with an empty, a
\* blank or a malformed symbol, a zero or negative quantity, a zero or
\* negative price, or several of these
CreateInputs ==
    {[symbol |-> <<"a">>, quantity |-> 3, buyPrice |-> 2],
     [symbol |-> <<" ", "B">>, quantity |-> 3, buyPrice |-> 2],
     [symbol |-> <<>>, quantity |-> 3, buyPrice |-> 2],
     [symbol |-> <<" ">>, quantity |-> 3, buyPrice |-> 2],
     [symbol |-> <<"A", "1">>, quantity |-> 3, buyPrice |-> 2],
     [symbol |-> <<"A", "A", "A", "B", "B", "B">>, quantity |-> 3, buyPrice |-> 2],
     [symbol |-> <<"a">>, quantity |-> 0, buyPrice |-> 2],
     [symbol |-> <<"a">>, quantity |-> -1, buyPrice |-> 2],
     [symbol |-> <<"a">>, quantity |-> 3, buyPrice |-> 0],
     [symbol |-> <<"a">>, quantity |-> 3, buyPrice |-> -1],
     [symbol |-> <<"A", "1">>, quantity |-> 0, buyPrice |-> -1]}

NoUpdates ==
    [sellPrice |-> Null, sellDate |-> Null, quantity |-> Null, buyPrice |-> Null]

\* What a caller passes to updateTrade: a new quantity or buy price,
\* positive or not, a sell price with or without the sell date, or a sell
\* date alone
UpdateInputs ==
    {[NoUpdates EXCEPT !.quantity = Some(4)],
     [NoUpdates EXCEPT !.sellDate = Some("2024-02-01")],
     [NoUpdates EXCEPT !.quantity = Some(-5)],
     [NoUpdates EXCEPT !.buyPrice = Some(0)],
     [NoUpdates EXCEPT !.sellPrice = Some(3)],
     [NoUpdates EXCEPT !.sellPrice = Some(1), !.sellDate = Some("2024-02-01")]}

\* Sell prices: negative, zero, below and above the buy price
SellInputs == {-1, 0, 1, 3}

\* The ids a caller passes: of a trade of the store, or of none
StoreIds == {1, 2}

\* The trade an earlier session may have stored
SeedTrade ==
    [id |-> 1, symbol |-> <<"A">>, quantity |-> 3, buyPrice |-> 2,
     sellPrice |-> Null, sellDate |-> Null]

InitStore ==
    /\ now = 0
    /\ priceCache = <<>>
    /\ call = IdleCall
    /\ batch = IdleBatch
    /\ lastRead = NoRead
    /\ lastClear = NoClear
    /\ advances = 0
    /\ ops = 0
    /\ quotaOk \in BOOLEAN
    /\ val = ValIdle
    /\ HooksInit
    /\ \E stored \in {<<>>, <<SeedTrade>>} :
          /\ localStorage = IF stored = <<>>
                            THEN <<>>
                            ELSE setItem(<<>>, tradeStorageKey, stored)
          /\ store = [StoreConstructed EXCEPT !.nextId = Len(stored) + 1]
    /\ priceHook = PriceHookIdle
    /\ retryOp = RetryIdle
    /\ debouncer = DebounceIdle
    /\ hookLS = HookLSIdle

DoAddTrade == \E tradeData \in CreateInputs : AddTrade(tradeData)

DoUpdateTrade ==
    \E tradeId \in StoreIds, updates \in UpdateInputs : UpdateTrade(tradeId, updates)

DoSellTrade ==
    \E tradeId \in StoreIds, sellPrice \in SellInputs : SellTrade(tradeId, sellPrice)

DoDeleteTrade == \E tradeId \in StoreIds : DeleteTrade(tradeId)

NextStore ==
    \/ Initialize
    \/ DoAddTrade
    \/ DoUpdateTrade
    \/ DoSellTrade
    \/ DoDeleteTrade
    \/ QuotaChange

SpecStore == InitStore /\ [][NextStore]_vars

-----------------------------------------------------------------------------
(* usePrice.refreshAllPrices over useAsyncOperation.execute,
   priceService.fetchBatchPrices and useTradeStore.updatePrices *)

\* useTradeStore.updatePrices(priceMap)
updatePrices(st, ls, priceMap) ==
    LET domainTrades == loadTrades(ls)
    IN [st EXCEPT !.trades = toDTOs(domainTrades, priceMap),
                  !.filteredList = Some(getTradesWithFilter(domainTrades, priceMap))]

\* [...new Set(values)]: the distinct values, in the order of their first
\* occurrence
RECURSIVE distinct(_, _)
distinct(values, seen) ==
    IF values = <<>>
    THEN <<>>
    ELSE IF Head(values) \in seen
         THEN distinct(Tail(values), seen)
         ELSE <<Head(values)>> \o distinct(Tail(values), seen \cup {Head(values)})

\* The error of the hook: lastError || singleError || refreshError ||
\* symbolRefreshError (the single-fetch and symbol-refresh operations are
\* not run, their errors stay null)
hookError(h) == IF present(h.lastError) THEN h.lastError ELSE h.refreshError

\* useAsyncOperation.execute, the catch block: the state takes the message
\* and the promise resolves with null
executeCaught(h, message) ==
    [h EXCEPT !.isRefreshLoading = FALSE, !.refreshError = Some(message)]

\* useAsyncOperation.execute after the operation has resolved
executeResolved(h) ==
    [h EXCEPT !.isRefreshLoading = FALSE]

\* refreshAllPrices() up to its first suspension.  batchRejects: the
\* fetchBatchPrices call rejects with message (symbols.map(s =>
\* s.toUpperCase()) throws on a symbol that is no string).  The awaited
\* execute never rejects, so the catch block of refreshAllPrices, which
\* would set lastError and rethrow, does not run.
RefreshAllPrices(batchRejects, message) ==
    /\ priceHook.pc = "idle"
    /\ batch.pc = "idle"
    /\ LET trades == store.trades
           symbols == distinct([k \in 1..Len(trades) |-> trades[k].symbol], {})
           started == [priceHook EXCEPT !.lastError = Null,
                                        !.refreshError = Null,
                                        !.isRefreshLoading = TRUE,
                                        !.tradesAtCall = trades,
                                        !.symbols = symbols]
       IN priceHook' =
             IF Len(trades) = 0 \/ Len(symbols) = 0
             THEN [executeResolved(started) EXCEPT !.pc = "done",
                                                   !.outcome = "resolved"]
             ELSE IF batchRejects
                  THEN [executeCaught(started, message) EXCEPT
                            !.pc = "done", !.outcome = "resolved",
                            !.batchRejected = TRUE]
                  ELSE [started EXCEPT !.pc = "fetch"]
    /\ UNCHANGED <<now, localStorage, priceCache, call, batch, lastRead, lastClear,
                   advances, ops, quotaOk, val, store, retryOp, debouncer, hookLS, hookVars>>

\* priceService.fetchBatchPrices(symbols, true), called by the operation
\* in the same task
RefreshFetchBatch ==
    /\ priceHook.pc = "fetch"
    /\ batch.pc = "idle"
    /\ FetchBatchPricesCall(priceHook.symbols, TRUE)

\* A request of the refresh settles
RefreshRequestSettle(j, outcome) ==
    /\ priceHook.pc = "fetch"
    /\ BatchRequestSettle(j, outcome)

\* fetchBatchPrices has resolved: updatePrices(priceMap), the operation and
\* execute resolve, and with them refreshAllPrices
RefreshUpdatePrices ==
    /\ priceHook.pc = "fetch"
    /\ batch.pc = "done"
    /\ store' = updatePrices(store, localStorage, batch.priceMap)
    /\ priceHook' = [executeResolved(priceHook) EXCEPT !.pc = "done",
                                                       !.outcome = "resolved"]
    /\ UNCHANGED <<now, localStorage, priceCache, call, batch, lastRead, lastClear,
                   advances, ops, quotaOk, val, retryOp, debouncer, hookLS, hookVars>>

\* The trade lists an earlier session may have stored: up to MaxTrades
\* trades of the tickers A and B, bought at 2, open or sold at 3
RefreshTrades ==
    [id : 1..MaxTrades, symbol : SeedSymbols, quantity : {3}, buyPrice : {2},
     sellPrice : {Null, Some(3)}, sellDate : {Null, Some("2024-02-01")}]

StoredTradeLists ==
    UNION {{trades \in [1..n -> RefreshTrades] :
               \A k \in 1..n :
                  /\ trades[k].id = k
                  /\ present(trades[k].sellPrice) <=> present(trades[k].sellDate)} :
              n \in 0..MaxTrades}

BatchErrors == {"Batch fetch failed"}

\* The page has loaded: the store is initialized from the stored trades,
\* localStorage may hold price entries written at time 0, expired or not,
\* and the quote service's in-memory cache may hold quotes,
InitRefresh ==
    /\ \E trades \in StoredTradeLists, stored \in SUBSET SeedSymbols,
          memo \in SUBSET SeedSymbols :
          /\ localStorage = setItem(seededStorage(stored, 1), tradeStorageKey, trades)
          /\ priceCache = seededPriceCache(memo, 1)
          /\ store = initialize([StoreConstructed EXCEPT !.nextId = Len(trades) + 1],
                                setItem(<<>>, tradeStorageKey, trades))
    /\ now \in {0, CACHE_DURATION * Ticks(60 * 1000) + 1}
    /\ call = IdleCall
    /\ batch = IdleBatch
    /\ lastRead = NoRead
    /\ lastClear = NoClear
    /\ advances = 0
    /\ ops = 0
    /\ quotaOk \in BOOLEAN
    /\ val = ValIdle
    /\ HooksInit
    /\ priceHook = PriceHookIdle
    /\ retryOp = RetryIdle
    /\ debouncer = DebounceIdle
    /\ hookLS = HookLSIdle

DoRefreshAllPrices ==
    \E batchRejects \in BOOLEAN, message \in BatchErrors :
        RefreshAllPrices(batchRejects, message)

DoRefreshRequestSettle ==
    \E j \in 1..batchSize, outcome \in HttpOutcomes : RefreshRequestSettle(j, outcome)

NextRefresh ==
    \/ DoRefreshAllPrices
    \/ RefreshFetchBatch
    \/ DoRefreshRequestSettle
    \/ RefreshUpdatePrices

SpecRefresh == InitRefresh /\ [][NextRefresh]_vars

-----------------------------------------------------------------------------
(* useAsyncOperationWithRetry over useAsyncOperation.execute *)

\* useAsyncOperation.execute, entry: the state before the operation is
\* awaited
executeBegin(state) ==
    [state EXCEPT !.isLoading = TRUE, !.error = Null, !.isSuccess = FALSE,
                  !.isError = FALSE]

\* useAsyncOperation.execute once the awaited operation has settled: the
\* new state, whether execute throws, and the value it resolves with.  The
\* catch block returns null, so execute throws in no case.
executeSettled(state, settled) ==
    IF settled.ok
    THEN [state |-> [state EXCEPT !.data = Some(settled.value),
                                  !.isLoading = FALSE,
                                  !.isSuccess = TRUE,
                                  !.isError = FALSE],
          threw |-> FALSE, result |-> Some(settled.value)]
    ELSE [state |-> [state EXCEPT !.isLoading = FALSE,
                                  !.error = Some(settled.message),
                                  !.isSuccess = FALSE,
                                  !.isError = TRUE],
          threw |-> FALSE, result |-> Null]

\* attemptOperation, entry: attempts++, setRetryCount(attempts - 1), and
\* baseOperation.execute(operation) up to its await, which invokes the
\* operation
attemptOperation(r) ==
    [r EXCEPT !.pc = "running",
              !.attempts = @ + 1,
              !.retryCount = r.attempts,
              !.base = executeBegin(@),
              !.invocations = @ + 1]

\* attemptOperation after the awaited execute has settled: the try block
\* resolves the call with what execute returned; the catch block waits
\* retryDelay * attempts and attempts again while attempts <= maxRetries,
\* and rethrows after that
attemptSettled(r, settled) ==
    LET executed == executeSettled(r.base, settled)
        based == [r EXCEPT !.base = executed.state,
                           !.allFailed = @ /\ ~settled.ok]
    IN IF ~executed.threw
       THEN [based EXCEPT !.pc = "done", !.retryCount = 0,
                          !.outcome = "resolved", !.result = executed.result]
       ELSE IF based.attempts <= based.maxRetries
            THEN [based EXCEPT !.pc = "waiting",
                               !.waits = Append(@, based.retryDelay * based.attempts)]
            ELSE [based EXCEPT !.pc = "done", !.retryCount = based.maxRetries,
                               !.outcome = "rejected"]

unchangedByRetry ==
    UNCHANGED <<now, localStorage, priceCache, call, batch, lastRead, lastClear,
                advances, ops, quotaOk, val, store, priceHook, debouncer, hookLS, hookVars>>

\* executeWithRetry(operation) up to its first suspension
ExecuteWithRetry ==
    /\ retryOp.pc \in {"idle", "done"}
    /\ retryOp.executes < MaxExecutes
    /\ retryOp' = attemptOperation([retryOp EXCEPT !.attempts = 0,
                                                    !.invocations = 0,
                                                    !.allFailed = TRUE,
                                                    !.waits = <<>>,
                                                    !.outcome = "pending",
                                                    !.result = Null,
                                                    !.executes = @ + 1])
    /\ unchangedByRetry

\* The promise of the operation settles
OperationSettles(settled) ==
    /\ retryOp.pc = "running"
    /\ retryOp' = attemptSettled(retryOp, settled)
    /\ unchangedByRetry

\* The timer of the wait before a retry fires: the next attempt
RetryDelayElapsed ==
    /\ retryOp.pc = "waiting"
    /\ retryOp' = attemptOperation(retryOp)
    /\ unchangedByRetry

\* How an operation settles: with a value, or with an Error
Settlements ==
    {[ok |-> TRUE, value |-> v, message |-> ""] : v \in {1, 2}}
    \cup {[ok |-> FALSE, value |-> 0, message |-> m] : m \in {"Network error", "Timeout"}}

\* useAsyncOperationWithRetry(maxRetries, retryDelay); retryDelay in ms
InitRetry ==
    /\ PriceInit
    /\ val = ValIdle
    /\ HooksInit
    /\ store = StoreConstructed
    /\ priceHook = PriceHookIdle
    /\ debouncer = DebounceIdle
    /\ hookLS = HookLSIdle
    /\ \E maxRetries \in 0..MaxRetryLimit, retryDelay \in {500, 1000} :
          retryOp = [RetryIdle EXCEPT !.maxRetries = maxRetries,
                                      !.retryDelay = retryDelay]

DoOperationSettles == \E settled \in Settlements : OperationSettles(settled)

\* No state has pc = "waiting" (execute never throws), so RetryDelayElapsed
\* is never enabled and is no disjunct of the next-state relation.
NextRetry ==
    \/ ExecuteWithRetry
    \/ DoOperationSettles

SpecRetry == InitRetry /\ [][NextRetry]_vars

-----------------------------------------------------------------------------
(* useDebounceCallback(callback, delay): the timers of the event loop, the
   hook's timeoutRef, and the component's life.  Time is counted in units
   of 100 ms; a timer fires when it is due, before time passes on. *)

\* clearTimeout(id): the timer is dropped if it is still pending
clearTimeout(timers, id) == [i \in (DOMAIN timers) \ {id} |-> timers[i]]

\* if (timeoutRef.current) clearTimeout(timeoutRef.current)
clearCurrent(d) ==
    IF present(d.timeoutRef) /\ d.timeoutRef[1] # 0
    THEN clearTimeout(d.timers, d.timeoutRef[1])
    ELSE d.timers

unchangedByDebounce ==
    UNCHANGED <<now, localStorage, priceCache, call, batch, lastRead, lastClear,
                advances, ops, quotaOk, val, store, priceHook, retryOp, hookLS, hookVars>>

\* debouncedCallback(...args): the pending timer is cleared and a new one
\* set.  The function can be called for as long as something holds it,
\* after the unmount too.
DebouncedCallback(args) ==
    /\ Len(debouncer.calls) < MaxCalls
    /\ LET id == debouncer.nextTimer
           made == Len(debouncer.calls) + 1
       IN debouncer' =
             [debouncer EXCEPT
                 !.timers = mapSet(clearCurrent(debouncer), id,
                                   [due |-> debouncer.time + debouncer.delay,
                                    args |-> args, madeBy |-> made]),
                 !.timeoutRef = Some(id),
                 !.nextTimer = id + 1,
                 !.calls = Append(@, [at |-> debouncer.time, args |-> args,
                                      mounted |-> debouncer.mounted])]
    /\ unchangedByDebounce

\* The timer is due: callback(...args) runs
TimerFires(id) ==
    /\ id \in DOMAIN debouncer.timers
    /\ debouncer.timers[id].due <= debouncer.time
    /\ debouncer' =
          [debouncer EXCEPT
              !.timers = clearTimeout(@, id),
              !.runs = Append(@, [at |-> debouncer.time,
                                  args |-> debouncer.timers[id].args,
                                  madeBy |-> debouncer.timers[id].madeBy,
                                  mounted |-> debouncer.mounted])]
    /\ unchangedByDebounce

\* The component unmounts: the cleanup of the effect clears the timer of
\* timeoutRef
Unmount ==
    /\ debouncer.mounted
    /\ debouncer' = [debouncer EXCEPT !.mounted = FALSE,
                                      !.timers = clearCurrent(debouncer)]
    /\ unchangedByDebounce

\* Time passes, once every timer that is due has fired
TimePasses ==
    /\ debouncer.time < MaxTime
    /\ \A id \in DOMAIN debouncer.timers : debouncer.timers[id].due > debouncer.time
    /\ debouncer' = [debouncer EXCEPT !.time = @ + 1]
    /\ unchangedByDebounce

CallbackArgs == {"arg1", "arg2"}

InitDebounce ==
    /\ PriceInit
    /\ val = ValIdle
    /\ HooksInit
    /\ store = StoreConstructed
    /\ priceHook = PriceHookIdle
    /\ retryOp = RetryIdle
    /\ hookLS = HookLSIdle
    /\ \E delay \in {2, 3} :
          debouncer = [DebounceIdle EXCEPT !.delay = delay]

DoDebouncedCallback == \E args \in CallbackArgs : DebouncedCallback(args)

DoTimerFires == \E id \in DOMAIN debouncer.timers : TimerFires(id)

NextDebounce ==
    \/ DoDebouncedCallback
    \/ DoTimerFires
    \/ Unmount
    \/ TimePasses

SpecDebounce == InitDebounce /\ [][NextDebounce]_vars

-----------------------------------------------------------------------------
(* useLocalStorage(key, initialValue) in a mounted component, over a
   window.localStorage whose setItem may throw: for every item (the storage
   is unusable), or for the item of the value only (the storage has room
   for the item of the availability probe and no more) *)

probeKey == <<"__localStorage_test__">>

\* JSON.stringify(value): the text of the value
JSON_stringify(value) == [json |-> value]

\* JSON.parse(text)
JSON_parse(text) == text.json

\* getStorage(): window.localStorage if the probe item can be written and
\* removed, the no-op storage if the probe throws
getStorage(ls, quota) ==
    IF quota = "none"
    THEN [noop |-> TRUE, probeThrew |-> TRUE, storage |-> ls]
    ELSE [noop |-> FALSE, probeThrew |-> FALSE,
          storage |-> removeItem(setItem(ls, probeKey, "test"), probeKey)]

\* value instanceof Function ? value(prevValue) : value; the function of
\* the model is prev => (prev + 1) % 3
valueOf(value, prevValue) ==
    IF value.isFunction THEN (prevValue + 1) % 3 ELSE value.plain

\* Mutant: the listener does not compare the key of the event with its own.
handleCustomStorageChange_anyKey(h, detail) ==
    IF IsNull(detail.newValue)
    THEN h.initialValue
    ELSE JSON_parse(detail.newValue[1])

\* handleCustomStorageChange(e), the hook's own listener of the
\* 'localstorage' event: the value the state is set to
handleCustomStorageChange(h, detail) ==
    IF detail.key # h.key
    THEN h.storedValue
    ELSE IF IsNull(detail.newValue)
         THEN h.initialValue
         ELSE JSON_parse(detail.newValue[1])

\* Mutant: the catch block keeps the new value though persisting failed.
setStoredValueUpdater_optimistic(h, ls, value) ==
    LET prevValue == h.storedValue
        valueToStore == valueOf(value, prevValue)
        opened == getStorage(ls, h.quota)
        writeThrew == ~opened.noop /\ h.quota # "room"
        detail == [key |-> hookKey, newValue |-> Some(JSON_stringify(valueToStore))]
        log == [name |-> "setValue", prevValue |-> prevValue,
                valueToStore |-> valueToStore, probeThrew |-> opened.probeThrew,
                writeThrew |-> writeThrew, eventsBefore |-> h.events,
                storageBefore |-> ls]
    IN IF ~h.isMounted
       THEN [hook |-> [h EXCEPT !.storedValue = valueToStore, !.op = log],
             storage |-> ls]
       ELSE IF writeThrew
            THEN [hook |-> [h EXCEPT !.storedValue = valueToStore, !.op = log],
                  storage |-> opened.storage]
            ELSE [hook |-> [h EXCEPT
                               !.events = Append(@, detail),
                               !.storedValue = handleCustomStorageChange(h, detail),
                               !.op = log],
                  storage |-> IF opened.noop
                              THEN opened.storage
                              ELSE setItem(opened.storage, hookKey,
                                           JSON_stringify(valueToStore))]

\* setValue(value): the updater given to setStoredValue, applied to the
\* current state.  The result is the hook (state, events dispatched, and
\* the record of the call) and the storage.
setStoredValueUpdater(h, ls, value) ==
    LET prevValue == h.storedValue
        valueToStore == valueOf(value, prevValue)
        opened == getStorage(ls, h.quota)
        writeThrew == ~opened.noop /\ h.quota # "room"
        detail == [key |-> hookKey, newValue |-> Some(JSON_stringify(valueToStore))]
        log == [name |-> "setValue", prevValue |-> prevValue,
                valueToStore |-> valueToStore, probeThrew |-> opened.probeThrew,
                writeThrew |-> writeThrew, eventsBefore |-> h.events,
                storageBefore |-> ls]
    IN IF ~h.isMounted
       THEN [hook |-> [h EXCEPT !.storedValue = valueToStore, !.op = log],
             storage |-> ls]
       ELSE IF writeThrew
            THEN [hook |-> [h EXCEPT !.storedValue = prevValue, !.op = log],
                  storage |-> opened.storage]
            ELSE [hook |-> [h EXCEPT
                               !.events = Append(@, detail),
                               !.storedValue = handleCustomStorageChange(h, detail),
                               !.op = log],
                  storage |-> IF opened.noop
                              THEN opened.storage
                              ELSE setItem(opened.storage, hookKey,
                                           JSON_stringify(valueToStore))]

\* removeValue()
removeValue(h, ls) ==
    LET opened == getStorage(ls, h.quota)
        detail == [key |-> hookKey, newValue |-> Null]
        log == [name |-> "removeValue", prevValue |-> h.storedValue,
                valueToStore |-> h.initialValue, probeThrew |-> opened.probeThrew,
                writeThrew |-> FALSE, eventsBefore |-> h.events,
                storageBefore |-> ls]
    IN [hook |-> [h EXCEPT !.events = IF h.isMounted THEN Append(@, detail) ELSE @,
                           !.storedValue = h.initialValue,
                           !.op = log],
        storage |-> IF h.isMounted /\ ~opened.noop
                    THEN removeItem(opened.storage, hookKey)
                    ELSE ls]

unchangedByHook ==
    UNCHANGED <<now, priceCache, call, batch, lastRead, lastClear, advances, ops,
                quotaOk, val, store, priceHook, retryOp, debouncer, hookVars>>

SetValue(value) ==
    /\ hookLS.count < MaxSets
    /\ LET set == setStoredValueUpdater(hookLS, localStorage, value)
       IN /\ hookLS' = [set.hook EXCEPT !.count = @ + 1]
          /\ localStorage' = set.storage
    /\ unchangedByHook

RemoveValue ==
    /\ hookLS.count < MaxSets
    /\ LET removed == removeValue(hookLS, localStorage)
       IN /\ hookLS' = [removed.hook EXCEPT !.count = @ + 1]
          /\ localStorage' = removed.storage
    /\ unchangedByHook

\* The storage fills up or is freed, is blocked or unblocked
StorageQuotaChanges(quota) ==
    /\ quota # hookLS.quota
    /\ hookLS' = [hookLS EXCEPT !.quota = quota]
    /\ UNCHANGED localStorage
    /\ unchangedByHook

StorageQuotas == {"room", "probeOnly", "none"}

SetValueInputs ==
    {[isFunction |-> FALSE, plain |-> v] : v \in {1, 2}}
    \cup {[isFunction |-> TRUE, plain |-> 0]}

\* The component has mounted: the state holds the stored value, or
\* initialValue if there is none or the storage is unusable
InitHookLS ==
    /\ now = 0
    /\ priceCache = <<>>
    /\ call = IdleCall
    /\ batch = IdleBatch
    /\ lastRead = NoRead
    /\ lastClear = NoClear
    /\ advances = 0
    /\ ops = 0
    /\ quotaOk = TRUE
    /\ val = ValIdle
    /\ HooksInit
    /\ store = StoreConstructed
    /\ priceHook = PriceHookIdle
    /\ retryOp = RetryIdle
    /\ debouncer = DebounceIdle
    /\ \E stored \in {Null, Some(1)}, quota \in StorageQuotas :
          /\ localStorage = IF IsNull(stored)
                            THEN <<>>
                            ELSE setItem(<<>>, hookKey, JSON_stringify(stored[1]))
          /\ hookLS = [HookLSIdle EXCEPT
                          !.isMounted = TRUE,
                          !.quota = quota,
                          !.storedValue = IF IsNull(stored) \/ quota = "none"
                                          THEN HookLSIdle.initialValue
                                          ELSE stored[1]]

DoSetValue == \E value \in SetValueInputs : SetValue(value)

DoStorageQuotaChanges == \E quota \in StorageQuotas : StorageQuotaChanges(quota)

NextHookLS ==
    \/ DoSetValue
    \/ RemoveValue
    \/ DoStorageQuotaChanges

SpecHookLS == InitHookLS /\ [][NextHookLS]_vars

-----------------------------------------------------------------------------
(* Specification of useLocalStorage instances sharing the window: several
   components render the hook at the same time, two of them with the same
   key.  dispatchEvent is synchronous, so a setValue and the delivery of
   its 'localstorage' event to every registered listener are one step. *)

\* window.dispatchEvent(new CustomEvent('localstorage', { detail })): the
\* listener of every mounted instance runs; an unmounted instance has
\* removed its listener
dispatchEvent(inst, detail) ==
    [i \in Instances |->
        IF inst[i].isMounted
        THEN [inst[i] EXCEPT !.storedValue = handleCustomStorageChange(inst[i], detail)]
        ELSE inst[i]]

\* useState initialiser and the rehydrating effect of a mounting instance:
\* item ? JSON.parse(item) : initialValue
rehydrate(h, ls, quota) ==
    LET opened == getStorage(ls, quota)
    IN IF ~opened.noop /\ h.key \in DOMAIN opened.storage
       THEN JSON_parse(opened.storage[h.key])
       ELSE h.initialValue

\* setValue(value) of the instance sender: the state of every instance and
\* the storage after the call and the listeners it triggered
setValue(hs, ls, sender, value) ==
    LET h == hs.inst[sender]
        prevValue == h.storedValue
        valueToStore == valueOf(value, prevValue)
        opened == getStorage(ls, hs.quota)
        writeThrew == ~opened.noop /\ hs.quota # "room"
        detail == [key |-> h.key, newValue |-> Some(JSON_stringify(valueToStore))]
        log == [name |-> "setValue", sender |-> sender, key |-> h.key,
                valueToStore |-> valueToStore,
                dispatched |-> h.isMounted /\ ~writeThrew,
                before |-> [i \in Instances |-> hs.inst[i].storedValue]]
    IN IF ~h.isMounted
       THEN [hooks |-> [hs EXCEPT !.inst[sender].storedValue = valueToStore,
                                  !.op = log],
             storage |-> ls]
       ELSE IF writeThrew
            THEN [hooks |-> [hs EXCEPT !.op = log], storage |-> opened.storage]
            ELSE [hooks |-> [hs EXCEPT
                               !.inst = [dispatchEvent(hs.inst, detail) EXCEPT
                                            ![sender].storedValue = valueToStore],
                               !.op = log],
                  storage |-> IF opened.noop
                              THEN opened.storage
                              ELSE setItem(opened.storage, h.key,
                                           JSON_stringify(valueToStore))]

unchangedBySync ==
    UNCHANGED <<now, priceCache, call, batch, lastRead, lastClear, advances, ops,
                quotaOk, val, appVars, cacheHook, asyncOp, storageOp>>

\* A component rendering the hook mounts
MountInstance(i) ==
    /\ ~hooks.inst[i].isMounted
    /\ hooks' = [hooks EXCEPT
                    !.inst[i].isMounted = TRUE,
                    !.inst[i].storedValue = rehydrate(hooks.inst[i], localStorage,
                                                      hooks.quota),
                    !.op = NoSyncOp]
    /\ UNCHANGED localStorage
    /\ unchangedBySync

\* and unmounts: the cleanups clear isMounted.current and remove the listeners
UnmountInstance(i) ==
    /\ hooks.inst[i].isMounted
    /\ hooks' = [hooks EXCEPT !.inst[i].isMounted = FALSE, !.op = NoSyncOp]
    /\ UNCHANGED localStorage
    /\ unchangedBySync

InstanceSetValue(i, value) ==
    /\ LET set == setValue(hooks, localStorage, i, value)
       IN /\ hooks' = set.hooks
          /\ localStorage' = set.storage
    /\ unchangedBySync

\* The storage fills up or is freed, is blocked or unblocked
SharedQuotaChanges(quota) ==
    /\ quota # hooks.quota
    /\ hooks' = [hooks EXCEPT !.quota = quota, !.op = NoSyncOp]
    /\ UNCHANGED localStorage
    /\ unchangedBySync

InitSync ==
    /\ now = 0
    /\ localStorage = <<>>
    /\ priceCache = <<>>
    /\ call = IdleCall
    /\ batch = IdleBatch
    /\ lastRead = NoRead
    /\ lastClear = NoClear
    /\ advances = 0
    /\ ops = 0
    /\ quotaOk = TRUE
    /\ val = ValIdle
    /\ AppInit
    /\ hooks = HooksIdle
    /\ cacheHook = CacheHookIdle
    /\ asyncOp = AsyncOpIdle
    /\ storageOp = NoStorageOp

DoMountInstance == \E i \in Instances : MountInstance(i)

DoUnmountInstance == \E i \in Instances : UnmountInstance(i)

DoInstanceSetValue ==
    \E i \in Instances, value \in SetValueInputs : InstanceSetValue(i, value)

DoSharedQuotaChanges == \E quota \in StorageQuotas : SharedQuotaChanges(quota)

NextSync ==
    \/ DoMountInstance
    \/ DoUnmountInstance
    \/ DoInstanceSetValue
    \/ DoSharedQuotaChanges

SpecSync == InitSync /\ [][NextSync]_vars

-----------------------------------------------------------------------------
(* Specification of useLocalStorageCache: setItem calls of a mounted cache
   with the prefix 'cache' on a storage that may also hold entries written
   by others.  Date.now() never decreases; two calls may read the same
   value. *)

keyPrefix == <<"c", "a", "c", "h", "e">>

\* getCacheKey(key): `${keyPrefixRef.current}_${key}`
getCacheKey(key) == keyPrefix \o <<"_">> \o key

\* Object.keys(localStorage).filter((k) => k.startsWith(keyPrefixRef.current))
allKeys(ls) == {k \in DOMAIN ls : startsWith(k, keyPrefix)}

\* parsed?.timestamp || 0 of the item stored under k
timestampOf(ls, k) ==
    LET parsed == JSON_parse(ls[k])
    IN IF "timestamp" \in DOMAIN parsed THEN parsed.timestamp ELSE 0

\* The keys that sort((a, b) => a.timestamp - b.timestamp).slice(0, n) can
\* select: n keys none of which is newer than a key left out.  The order
\* of Object.keys among equal timestamps decides between them.
oldest(ls, n) ==
    {R \in SUBSET allKeys(ls) :
        /\ Cardinality(R) = n
        /\ \A r \in R : \A k \in allKeys(ls) \ R :
              timestampOf(ls, r) <= timestampOf(ls, k)}

RECURSIVE removeItems(_, _)
removeItems(ls, keys) ==
    IF keys = {}
    THEN ls
    ELSE LET k == CHOOSE x \in keys : TRUE
         IN removeItems(removeItem(ls, k), keys \ {k})

\* Mutant: the newest entries are removed.
evict_newest(ls, maxItems, R) ==
    IF Cardinality(allKeys(ls)) > maxItems
    THEN /\ Cardinality(R) = Cardinality(allKeys(ls)) - maxItems
         /\ R \subseteq allKeys(ls)
         /\ \A r \in R : \A k \in allKeys(ls) \ R :
               timestampOf(ls, r) >= timestampOf(ls, k)
    ELSE R = {}

\* The keys R that setItem removes after its write: none while the limit
\* is kept, else the allKeys.length - maxItems oldest
evict(ls, maxItems, R) ==
    IF Cardinality(allKeys(ls)) > maxItems
    THEN R \in oldest(ls, Cardinality(allKeys(ls)) - maxItems)
    ELSE R = {}

unchangedByCache ==
    UNCHANGED <<now, priceCache, call, batch, lastRead, lastClear, advances, ops,
                quotaOk, val, appVars, hooks, asyncOp, storageOp>>

\* setItem(key, value) of the cache, without expirationMs
CacheSetItem(key, value) ==
    LET c == cacheHook
        opened == getStorage(localStorage, c.quota)
        writeThrew == ~opened.noop /\ c.quota # "room"
        item == [value |-> value, timestamp |-> c.clock]
        written == IF opened.noop
                   THEN opened.storage
                   ELSE setItem(opened.storage, getCacheKey(key),
                                JSON_stringify(item))
        log == [name |-> "setItem", cacheKey |-> getCacheKey(key),
                wrote |-> c.isMounted /\ ~opened.noop /\ ~writeThrew,
                storageBefore |-> localStorage, removed |-> {}]
    IN /\ unchangedByCache
       /\ IF ~c.isMounted \/ writeThrew
          THEN /\ localStorage' = localStorage
               /\ cacheHook' = [c EXCEPT !.op = log]
          ELSE \E R \in SUBSET allKeys(written) :
                  /\ evict(written, c.maxItems, R)
                  /\ localStorage' = IF opened.noop
                                     THEN written
                                     ELSE removeItems(written, R)
                  /\ cacheHook' = [c EXCEPT !.op = [log EXCEPT !.removed = R]]

\* Date.now() moves on
CacheClockAdvances ==
    /\ cacheHook.clock < MaxStamp
    /\ cacheHook' = [cacheHook EXCEPT !.clock = @ + 1, !.op = NoCacheOp]
    /\ UNCHANGED localStorage
    /\ unchangedByCache

\* The component using the cache unmounts: isMounted.current = false
CacheUnmount ==
    /\ cacheHook.isMounted
    /\ cacheHook' = [cacheHook EXCEPT !.isMounted = FALSE, !.op = NoCacheOp]
    /\ UNCHANGED localStorage
    /\ unchangedByCache

\* The storage fills up or is freed, is blocked or unblocked
CacheQuotaChanges(quota) ==
    /\ quota # cacheHook.quota
    /\ cacheHook' = [cacheHook EXCEPT !.quota = quota, !.op = NoCacheOp]
    /\ UNCHANGED localStorage
    /\ unchangedByCache

CacheItemKeys == {<<"1">>, <<"2">>, <<"3">>}

CacheLimits == {1, 2}

\* What others have written: an item of useLocalStorage under 'testKey',
\* and an item without a timestamp under 'cacheV', a key that starts with
\* the prefix of the cache
ForeignItems ==
    {<<>>,
     setItem(<<>>, hookKey, JSON_stringify([plain |-> 1])),
     setItem(setItem(<<>>, hookKey, JSON_stringify([plain |-> 1])),
             keyPrefix \o <<"V">>, JSON_stringify([version |-> 1]))}

InitCache ==
    /\ now = 0
    /\ priceCache = <<>>
    /\ call = IdleCall
    /\ batch = IdleBatch
    /\ lastRead = NoRead
    /\ lastClear = NoClear
    /\ advances = 0
    /\ ops = 0
    /\ quotaOk = TRUE
    /\ val = ValIdle
    /\ AppInit
    /\ hooks = HooksIdle
    /\ asyncOp = AsyncOpIdle
    /\ storageOp = NoStorageOp
    /\ localStorage \in ForeignItems
    /\ \E maxItems \in CacheLimits :
          cacheHook = [CacheHookIdle EXCEPT !.isMounted = TRUE,
                                            !.maxItems = maxItems]

DoCacheSetItem == \E key \in CacheItemKeys : CacheSetItem(key, "value")

DoCacheQuotaChanges == \E quota \in StorageQuotas : CacheQuotaChanges(quota)

NextCache ==
    \/ DoCacheSetItem
    \/ CacheClockAdvances
    \/ CacheUnmount
    \/ DoCacheQuotaChanges

SpecCache == InitCache /\ [][NextCache]_vars

-----------------------------------------------------------------------------
(* Specification of the whole trade store: the operations of SpecStore
   and clearAllTrades, filterTrades and updatePrices, which a component
   may call in any order *)

\* storageService.clearTrades()
clearTrades(ls) == removeItem(ls, tradeStorageKey)

\* Mutant: clearAllTrades leaves the in-memory trades as they were.
clearAllTrades_keepsTrades(st) ==
    [st EXCEPT !.filteredList = Some([trades |-> <<>>, totalCount |-> 0,
                                      totalValue |-> 0, totalGain |-> 0,
                                      openPositions |-> 0, closedPositions |-> 0]),
               !.error = Null]

\* useTradeStore.clearAllTrades(): the state it sets
clearAllTrades(st) ==
    [st EXCEPT !.trades = <<>>,
               !.filteredList = Some([trades |-> <<>>, totalCount |-> 0,
                                      totalValue |-> 0, totalGain |-> 0,
                                      openPositions |-> 0, closedPositions |-> 0]),
               !.error = Null]

\* A store operation that does not write to storage with setItem
unwritten(st, ls) == [returned(st, ls) EXCEPT !.wrote = FALSE]

ClearAllTrades ==
    StoreOperation("clearAllTrades", 0, Null, Null, Null, Null,
                   unwritten([clearAllTrades(store) EXCEPT !.appliedPrices = <<>>],
                             clearTrades(localStorage)))

\* filterTrades(currentFilter), called by a component
FilterTrades ==
    StoreOperation("filterTrades", 0, Null, Null, Null, Null,
                   unwritten(filterTrades(store, localStorage), localStorage))

\* updatePrices(priceMap), called by a component: a synchronous action
UpdatePrices(priceMap) ==
    StoreOperation("updatePrices", 0, Null, Null, Null, Null,
                   unwritten([updatePrices(store, localStorage, priceMap)
                                 EXCEPT !.appliedPrices = priceMap],
                             localStorage))

\* The price maps a refresh passes: a price for A, or for A and B
StorePriceMaps == {(<<"A">> :> 4), (<<"A">> :> 1) @@ (<<"B">> :> 4)}

DoUpdatePrices == \E priceMap \in StorePriceMaps : UpdatePrices(priceMap)

NextStoreAll ==
    \/ NextStore
    \/ ClearAllTrades
    \/ FilterTrades
    \/ DoUpdatePrices

SpecStoreAll == InitStore /\ [][NextStoreAll]_vars

-----------------------------------------------------------------------------
(* Specification of useAsyncOperation: a component calls execute, also
   while earlier calls are pending; each operation resolves or rejects at
   some later time, in any order; the component may call reset. *)

unchangedByAsync ==
    UNCHANGED <<now, localStorage, priceCache, call, batch, lastRead, lastClear,
                advances, ops, quotaOk, val, appVars, hooks, cacheHook, storageOp>>

\* execute(operation) up to await operation(): the first setState
Execute ==
    /\ asyncOp.started < MaxExecutes
    /\ asyncOp' = [asyncOp EXCEPT
                      !.state = [@ EXCEPT !.isLoading = TRUE, !.error = Null,
                                          !.isSuccess = FALSE, !.isError = FALSE],
                      !.started = @ + 1,
                      !.pending = @ \cup {asyncOp.started + 1}]
    /\ unchangedByAsync

\* The operation of the execute call id resolves with result: the
\* setState after the await
OperationResolves(id, result) ==
    /\ id \in asyncOp.pending
    /\ asyncOp' = [asyncOp EXCEPT
                      !.state = [@ EXCEPT !.data = Some(result), !.isLoading = FALSE,
                                          !.isSuccess = TRUE, !.isError = FALSE],
                      !.pending = @ \ {id}]
    /\ unchangedByAsync

\* The operation of the execute call id rejects: the setState of the catch
\* block
OperationRejects(id, errorMessage) ==
    /\ id \in asyncOp.pending
    /\ asyncOp' = [asyncOp EXCEPT
                      !.state = [@ EXCEPT !.isLoading = FALSE,
                                          !.error = Some(errorMessage),
                                          !.isSuccess = FALSE, !.isError = TRUE],
                      !.pending = @ \ {id}]
    /\ unchangedByAsync

\* reset()
Reset ==
    /\ asyncOp.state # AsyncOpIdle.state
    /\ asyncOp' = [asyncOp EXCEPT !.state = AsyncOpIdle.state]
    /\ unchangedByAsync

AsyncResults == {1, 2}

AsyncErrors == {"An error occurred", "Network down"}

InitAsync ==
    /\ now = 0
    /\ localStorage = <<>>
    /\ priceCache = <<>>
    /\ call = IdleCall
    /\ batch = IdleBatch
    /\ lastRead = NoRead
    /\ lastClear = NoClear
    /\ advances = 0
    /\ ops = 0
    /\ quotaOk = TRUE
    /\ val = ValIdle
    /\ AppInit
    /\ hooks = HooksIdle
    /\ cacheHook = CacheHookIdle
    /\ asyncOp = AsyncOpIdle
    /\ storageOp = NoStorageOp

DoOperationResolves ==
    \E id \in 1..MaxExecutes, result \in AsyncResults : OperationResolves(id, result)

DoOperationRejects ==
    \E id \in 1..MaxExecutes, errorMessage \in AsyncErrors :
        OperationRejects(id, errorMessage)

NextAsync ==
    \/ Execute
    \/ DoOperationResolves
    \/ DoOperationRejects
    \/ Reset

SpecAsync == InitAsync /\ [][NextAsync]_vars

-----------------------------------------------------------------------------
(* Specification of storageService.clearCache over a localStorage that
   holds cache entries, the stored trades and an item of another
   application.  localStorage.key(i) enumerates the keys in an order the
   browser chooses; the order is only stable while the number of keys does
   not change. *)

\* The orders in which localStorage.key(i) can enumerate the keys of ls
keyOrders(ls) ==
    {order \in [1..Cardinality(DOMAIN ls) -> DOMAIN ls] :
        \A k \in DOMAIN ls : \E n \in DOMAIN order : order[n] = k}

\* for (let i = 0; i < localStorage.length; i++) { ... } of clearCache,
\* from index i on, the keys being enumerated in order: the storages the
\* loop can end with.  A removal shortens the storage and lets the browser
\* enumerate the remaining keys in any order.
RECURSIVE clearLoop(_, _, _)
clearLoop(ls, order, i) ==
    IF ~(i < Len(order))
    THEN {ls}
    ELSE IF startsWith(order[i + 1], <<storageCacheKeyPrefix>>)
         THEN LET removed == removeItem(ls, order[i + 1])
              IN UNION {clearLoop(removed, next, i + 1) : next \in keyOrders(removed)}
         ELSE clearLoop(ls, order, i + 1)

\* clearCache(key?): the storages the call can leave
clearCacheOutcomes(ls, key) ==
    IF ~IsNull(key) /\ key[1] # <<>>
    THEN {clearCache(ls, key[1])}
    ELSE UNION {clearLoop(ls, order, 0) : order \in keyOrders(ls)}

unchangedByClear ==
    UNCHANGED <<now, priceCache, call, batch, lastRead, lastClear, advances, ops,
                quotaOk, val, appVars, hooks, cacheHook, asyncOp>>

ClearCache(key) ==
    /\ \E after \in clearCacheOutcomes(localStorage, key) :
          localStorage' = after
    /\ storageOp' = [name |-> "clearCache", key |-> key, before |-> localStorage]
    /\ unchangedByClear

\* saveCache(key, data) by some service
SaveCache(key, data) ==
    /\ localStorage' = saveCache(localStorage, key, data, 15, now, TRUE)
    /\ storageOp' = [name |-> "saveCache", key |-> Some(key), before |-> localStorage]
    /\ unchangedByClear

\* The keys services cache under: two prices and a statistics entry
CacheKeys == {priceKey(<<"A">>), priceKey(<<"B">>), <<"stats">>}

\* What is stored beside the cache: nothing, the trades, or the trades and
\* an item of another application
OtherItems ==
    {<<>>,
     setItem(<<>>, tradeStorageKey, <<SeedTrade>>),
     setItem(setItem(<<>>, tradeStorageKey, <<SeedTrade>>), <<"theme">>, "dark")}

InitClear ==
    /\ now = 0
    /\ localStorage \in OtherItems
    /\ priceCache = <<>>
    /\ call = IdleCall
    /\ batch = IdleBatch
    /\ lastRead = NoRead
    /\ lastClear = NoClear
    /\ advances = 0
    /\ ops = 0
    /\ quotaOk = TRUE
    /\ val = ValIdle
    /\ AppInit
    /\ HooksInit

DoClearCache ==
    \E key \in {Null} \cup {Some(k) : k \in CacheKeys} : ClearCache(key)

DoSaveCache == \E key \in CacheKeys, data \in {1, 2} : SaveCache(key, data)

NextClear ==
    \/ DoClearCache
    \/ DoSaveCache

SpecClear == InitClear /\ [][NextClear]_vars

-----------------------------------------------------------------------------
(* Properties of the price cache *)

\* The lifetime, in seconds, of an entry cachePrice writes.
EntryLifetime == CACHE_DURATION * Ticks(60 * 1000)

\* The fetchPrice call followed has completed after one HTTP request that
\* failed.
CallFailedFetch == call.pc = "done" /\ call.http = 1 /\ call.kind = "error"

\* C1: when fetchPrice performs an upstream fetch and that fetch fails, it
\* returns the price last cached for the symbol, expired or not, and null
\* only when the symbol has no cache entry at all.
C1_FailedFetchReturnsLastCached ==
    CallFailedFetch => call.result = call.atStart.data

\* C2: an entry written with TTL = T (cachePrice writes with
\* T = CACHE_DURATION), read T + 1 after the write, is reported expired and
\* getCachedPrice returns null.
C2_ExpiredOnePastTTL ==
    (/\ lastRead.valid
     /\ ~IsNull(lastRead.loaded.data)
     /\ lastRead.age = Ticks(CACHE_DURATION) + 1)
    => (lastRead.loaded.expired /\ IsNull(lastRead.result))

\* C7: a fetchPrice call with forceRefresh, or for a symbol whose cache
\* entry is missing or expired, performs exactly one upstream quote fetch,
\* and when the fetch succeeds the symbol's cache entry holds the fetched
\* price with a fresh timestamp.
C7_ExactlyOneUpstreamFetch ==
    (/\ call.pc = "done"
     /\ ~call.threw
     /\ (call.refresh \/ call.atStart.expired))
    => /\ call.http = 1
       /\ (call.kind = "quote" /\ call.writable)
            => call.entryAtDone = Some([data |-> call.result[1],
                                        timestamp |-> call.start,
                                        expiration |-> EntryLifetime])

\* C8: a price written for a symbol and read back within the TTL is exactly
\* the written value, and fetchPrice without forceRefresh returns the cached
\* value without any upstream I/O.
C8_CacheRoundTrip ==
    /\ (/\ lastRead.valid
        /\ call.pc = "done"
        /\ call.quoteCalls = 1
        /\ call.writable
        /\ ~call.cleared
        /\ toUpperCase(lastRead.raw) = call.symbol
        /\ lastRead.at - call.start <= EntryLifetime)
       => lastRead.result = call.result
    /\ (/\ call.pc = "done"
        /\ ~call.threw
        /\ ~call.refresh
        /\ ~call.atStart.expired)
       => (/\ call.result = call.atStart.data
           /\ call.http = 0
           /\ call.quoteCalls = 0)

\* Witness of C8: a price was fetched and written by a call without
\* forceRefresh, and a read made later, within its lifetime, returned it.
C8_Witness ==
    /\ lastRead.valid
    /\ call.pc = "done"
    /\ ~call.refresh
    /\ call.kind = "quote"
    /\ call.writable
    /\ ~call.cleared
    /\ toUpperCase(lastRead.raw) = call.symbol
    /\ lastRead.at > call.start
    /\ lastRead.result = call.result

\* C9: every price-cache operation keys the entry by the trimmed, uppercased
\* symbol: getCachedPrice returns what is cached for the normalised symbol,
\* and clearPriceCache(symbol) removes the normalised symbol's entry.
C9_NormalisedKey ==
    /\ lastRead.valid => lastRead.result = lastRead.normalized
    /\ (/\ lastClear.valid
        /\ ~IsNull(lastClear.arg)
        /\ normalizeSymbol(lastClear.arg[1]) # <<>>)
       => storageKey(priceKey(normalizeSymbol(lastClear.arg[1])))
             \notin DOMAIN localStorage

-----------------------------------------------------------------------------
(* Properties of fetchBatchPrices *)

\* The chunks put back end to end.
RECURSIVE joinChunks(_)
joinChunks(chunks) ==
    IF chunks = <<>> THEN <<>> ELSE Head(chunks) \o joinChunks(Tail(chunks))

\* Chunk c of the call has a request that has been issued.
chunkBegun(c) ==
    \E j \in 1..Len(batch.batches[c]) : batch.status[c][j] # "notIssued"

\* Every request of chunk c has been issued and has settled.
chunkSettled(c) ==
    \A j \in 1..Len(batch.batches[c]) : batch.status[c][j] = "settled"

\* The positions (chunk, index) of the requests made for a symbol.
requestsOf(symbol) ==
    {p \in (1..Len(batch.batches)) \X (1..batchSize) :
        /\ p[2] <= Len(batch.batches[p[1]])
        /\ batch.batches[p[1]][p[2]] = symbol}

\* C5: within one fetchBatchPrices call the symbols to fetch are split into
\* consecutive chunks of at most batchSize (5) symbols, and every request of
\* a chunk has been issued and has settled before any request of the next
\* chunk is issued.
C5_StrictChunkOrdering ==
    batch.pc # "idle" =>
        /\ joinChunks(batch.batches) = batch.symbolsToFetch
        /\ \A c \in 1..Len(batch.batches) : Len(batch.batches[c]) \in 1..batchSize
        /\ \A c \in 1..Len(batch.batches) : \A d \in 1..Len(batch.batches) :
              (c < d /\ chunkBegun(d)) => chunkSettled(c)

\* Witness of C5: the requests of a second chunk are in flight.
C5_Witness ==
    /\ batch.pc = "await"
    /\ batch.i = 2
    /\ chunkSettled(1)
    /\ Len(batch.batches[1]) = batchSize

\* C6: a failing fetch of a symbol never rejects the batch; the call
\* resolves with a map that omits exactly the failed symbols, and the
\* symbols of the same and of later chunks are still fetched.
C6_FailedSymbolsOmitted ==
    batch.pc = "done" =>
        /\ \A c \in 1..Len(batch.batches) : chunkSettled(c)
        /\ \A c \in 1..Len(batch.batches) : \A j \in 1..Len(batch.batches[c]) :
              LET symbol == batch.batches[c][j]
                  failed == \A p \in requestsOf(symbol) :
                                batch.kind[p[1]][p[2]] = "error"
              IN failed <=> symbol \notin DOMAIN batch.priceMap

\* C10: with forceRefresh false, fetchBatchPrices issues no request for a
\* symbol that has an unexpired cache entry when the call is made, and the
\* result map holds that symbol's cached price.
C10_CachedSymbolsNotFetched ==
    (batch.pc # "idle" /\ ~batch.forceRefresh) =>
        \A k \in 1..Len(batch.symbols) :
            LET symbol == normalizeSymbol(batch.symbols[k])
                cached == freshPrice(batch.storageAtCall, symbol, batch.calledAt)
            IN (symbol # <<>> /\ ~IsNull(cached)) =>
                  /\ requestsOf(symbol) = {}
                  /\ \A j \in 1..Len(batch.symbolsToFetch) :
                        batch.symbolsToFetch[j] # symbol
                  /\ symbol \in DOMAIN batch.priceMap
                  /\ batch.priceMap[symbol] = cached[1]

\* Witness of C10: a call without forceRefresh has completed that found one
\* symbol cached and fetched another.
C10_Witness ==
    /\ batch.pc = "done"
    /\ ~batch.forceRefresh
    /\ batch.symbolsToFetch # <<>>
    /\ \E k \in 1..Len(batch.symbols) :
          /\ normalizeSymbol(batch.symbols[k]) # <<>>
          /\ ~IsNull(freshPrice(batch.storageAtCall,
                                normalizeSymbol(batch.symbols[k]), batch.calledAt))

-----------------------------------------------------------------------------
(* Properties of the valuation *)

\* C3: for every trade collection and every price map, the portfolio
\* snapshot satisfies totalGain = realizedGain + unrealizedGain, realizedGain
\* being the sum of the gains of the closed trades and unrealizedGain that
\* of the open trades.
C3_TotalGainSplits ==
    /\ present(val.performance) =>
          /\ val.performance[1].totalGain
                = val.performance[1].realizedGain + val.performance[1].unrealizedGain
          /\ val.performance[1].realizedGain = sum(gainsWhere(val.dtos, FALSE))
          /\ val.performance[1].unrealizedGain = sum(gainsWhere(val.dtos, TRUE))
    /\ present(val.list) =>
          /\ val.list[1].totalGain
                = val.list[1].realizedGain + val.list[1].unrealizedGain
          /\ val.list[1].realizedGain = sum(gainsWhere(val.dtos, FALSE))
          /\ val.list[1].unrealizedGain = sum(gainsWhere(val.dtos, TRUE))

\* Witness of C3: a snapshot of a collection with realized and unrealized
\* gain, both different from 0.
C3_Witness ==
    /\ present(val.performance)
    /\ val.performance[1].realizedGain # 0
    /\ val.performance[1].unrealizedGain # 0
    /\ val.performance[1].openTradeCount > 0
    /\ val.performance[1].closedTradeCount > 0

\* C4: the gain reported for a closed trade is
\* (sellPrice - buyPrice) * quantity, whatever current price is passed to
\* the valuation.
C4_ClosedGainIsRealized ==
    \A k \in 1..Len(val.dtos) :
        ~val.dtos[k].isOpen =>
            /\ present(val.trades[k].sellPrice)
            /\ val.dtos[k].gain
                 = (val.trades[k].sellPrice[1] - val.trades[k].buyPrice)
                      * val.trades[k].quantity

\* Witness of C4: a closed trade converted with a current price that differs
\* from its sell price.
C4_Witness ==
    \E k \in 1..Len(val.dtos) :
        /\ ~val.dtos[k].isOpen
        /\ truthy(priceOf(val.currentPrices, val.trades[k].symbol))
        /\ priceOf(val.currentPrices, val.trades[k].symbol) # val.trades[k].sellPrice
        /\ val.via = "service"

\* C11: in every valuation view produced for a trade, isOpen is true iff
\* the trade has no sellPrice or no sellDate; in particular a trade with a
\* sellPrice but no sellDate is reported open.
C11_OpenIffSellLegIncomplete ==
    \A k \in 1..Len(val.dtos) :
        val.dtos[k].isOpen
            <=> (~truthy(val.trades[k].sellPrice) \/ ~present(val.trades[k].sellDate))

\* The price the valuation view of trade k is to be valued at: the sell
\* price when the view is closed, else the current price when one is
\* supplied, else the buy price.
effectivePrice(k) ==
    LET currentPrice == priceOf(val.currentPrices, val.trades[k].symbol)
    IN IF ~val.dtos[k].isOpen /\ present(val.trades[k].sellPrice)
       THEN val.trades[k].sellPrice[1]
       ELSE IF truthy(currentPrice)
            THEN currentPrice[1]
            ELSE val.trades[k].buyPrice

\* C12: for every trade and optional current price, currentValue equals
\* quantity times the effective price: sellPrice if the trade is closed,
\* otherwise the supplied current price, otherwise buyPrice.
C12_CurrentValueAtEffectivePrice ==
    \A k \in 1..Len(val.dtos) :
        val.dtos[k].currentValue = val.trades[k].quantity * effectivePrice(k)

\* The DTOs of a symbol among the valuation views (of every symbol when
\* symbol is null) that are closed, and those of them with a positive gain
closedViews(symbol) ==
    {k \in 1..Len(val.dtos) :
        /\ ~val.dtos[k].isOpen
        /\ IsNull(symbol) \/ val.dtos[k].symbol = symbol[1]}

winningViews(symbol) == {k \in closedViews(symbol) : val.dtos[k].gain > 0}

\* winRate is (closed trades with gain > 0) / (closed trades) * 100 over the
\* views of the symbol, 0 without closed trades, and within 0..100
winRateAsSpecified(winRate, symbol) ==
    /\ winRate.den > 0
    /\ winRate.num >= 0
    /\ winRate.num <= 100 * winRate.den
    /\ IF closedViews(symbol) = {}
       THEN winRate.num = 0
       ELSE winRate.num * Cardinality(closedViews(symbol))
               = Cardinality(winningViews(symbol)) * 100 * winRate.den

\* C16: every reported winRate (portfolio-level, per symbol, and of the
\* trade statistics) equals closed trades with gain > 0 over closed trades,
\* times 100, is 0 when there is no closed trade, and lies between 0 and 100.
C16_WinRate ==
    /\ present(val.winRate) => winRateAsSpecified(val.winRate[1], Null)
    /\ present(val.stats) => winRateAsSpecified(val.stats[1].winRate, Null)
    /\ present(val.symbolPerformance) =>
          \A symbol \in DOMAIN val.symbolPerformance[1] :
              winRateAsSpecified(val.symbolPerformance[1][symbol].winRate, Some(symbol))

-----------------------------------------------------------------------------
(* Properties of the trade store *)

\* The trades of the store's in-memory list that have the id
heldWithId(id) == {k \in 1..Len(store.trades) : store.trades[k].id = id}

\* The change the last store operation was to make is in the in-memory
\* trade list
changeKept ==
    CASE store.op.name = "addTrade" ->
            /\ Len(store.trades) = Len(store.op.tradesBefore) + 1
            /\ SubSeq(store.trades, 1, Len(store.op.tradesBefore)) = store.op.tradesBefore
            /\ LET added == store.trades[Len(store.trades)]
               IN /\ added.id = store.op.id
                  /\ added.symbol = normalizeSymbol(store.op.symbol[1])
                  /\ added.quantity = store.op.quantity[1]
                  /\ added.buyPrice = store.op.buyPrice[1]
      [] store.op.name \in {"updateTrade", "sellTrade"} ->
            /\ Len(store.trades) = Len(store.op.tradesBefore)
            /\ \A k \in 1..Len(store.trades) :
                  IF store.trades[k].id = store.op.id
                  THEN /\ present(store.op.quantity)
                            => store.trades[k].quantity = store.op.quantity[1]
                       /\ present(store.op.buyPrice)
                            => store.trades[k].buyPrice = store.op.buyPrice[1]
                       /\ present(store.op.sellPrice)
                            => store.trades[k].sellPrice = store.op.sellPrice
                  ELSE store.trades[k] = store.op.tradesBefore[k]
      [] store.op.name = "deleteTrade" ->
            /\ heldWithId(store.op.id) = {}
            /\ store.trades =
                  SelectSeq(store.op.tradesBefore, LAMBDA trade : trade.id # store.op.id)
      [] OTHER -> TRUE

malformedSymbol(symbol) ==
    LET s == trim(symbol)
    IN ~(Len(s) \in 1..5 /\ \A i \in 1..Len(s) : s[i] \in {"a", "b", "A", "B"})

\* The caller of the last store operation passed a non-positive quantity
\* or price, or a malformed symbol
invalidInput ==
    \/ present(store.op.quantity) /\ store.op.quantity[1] <= 0
    \/ present(store.op.buyPrice) /\ store.op.buyPrice[1] <= 0
    \/ present(store.op.sellPrice) /\ store.op.sellPrice[1] <= 0
    \/ present(store.op.symbol) /\ malformedSymbol(store.op.symbol[1])

\* C15: an addTrade, updateTrade or sellTrade that is passed a non-positive
\* quantity or price, or a malformed symbol, rejects with a reason, and
\* leaves the in-memory trade list and the stored trade list as they were.
C15_InvalidInputRejected ==
    (store.op.name \in {"addTrade", "updateTrade", "sellTrade"} /\ invalidInput) =>
        /\ store.op.rejected
        /\ present(store.op.reason) /\ store.op.reason[1] # <<>>
        /\ store.trades = store.op.tradesBefore
        /\ loadTrades(localStorage) = store.op.storedBefore

-----------------------------------------------------------------------------
(* Properties of the price refresh *)

\* The refresh has requested the symbol's price and every request for it
\* failed
fetchFailed(symbol) ==
    /\ requestsOf(symbol) # {}
    /\ \A p \in requestsOf(symbol) : batch.kind[p[1]][p[2]] = "error"

\* The price of the symbol's cache entry when the refresh began, if it had
\* one
lastKnownPrice(symbol) ==
    LET entry == getItem(batch.storageAtCall, storageKey(priceKey(symbol)))
    IN IF IsNull(entry) THEN Null ELSE Some(entry[1].data)

\* C13: once refreshAllPrices has settled, every open trade of the store
\* whose symbol's fetch failed is valued at the price the cache held for
\* the symbol when the refresh began; if the cache held none, the trade has
\* gain 0 and currentValue = buyPrice * quantity.
C13_FailedFetchShowsLastCached ==
    (priceHook.pc = "done" /\ batch.pc = "done") =>
        \A k \in 1..Len(store.trades) :
            LET trade == store.trades[k]
                cached == lastKnownPrice(trade.symbol)
            IN (trade.isOpen /\ fetchFailed(trade.symbol)) =>
                  IF present(cached)
                  THEN /\ trade.currentValue = cached[1] * trade.quantity
                       /\ trade.gain = (cached[1] - trade.buyPrice) * trade.quantity
                  ELSE /\ trade.gain = 0
                       /\ trade.currentValue = trade.buyPrice * trade.quantity

\* C17: when the batch fetch of a refreshAllPrices call has rejected, the
\* promise of refreshAllPrices rejects, the hook's error is the message of
\* the error, and the trades of the store are the ones it held before the
\* call.
C17_BatchFailureRejectsRefresh ==
    (priceHook.pc = "done" /\ priceHook.batchRejected) =>
        /\ priceHook.outcome = "rejected"
        /\ hookError(priceHook) \in {Some(message) : message \in BatchErrors}
        /\ store.trades = priceHook.tradesAtCall

-----------------------------------------------------------------------------
(* Properties of useAsyncOperationWithRetry *)

\* C18: an executeWithRetry call whose operation has failed at every
\* invocation settles only after the operation was invoked maxRetries + 1
\* times, having waited retryDelay * 1, ..., retryDelay * maxRetries before
\* the retries.
C18_RetriesUntilMaxRetries ==
    (retryOp.pc = "done" /\ retryOp.allFailed) =>
        /\ retryOp.invocations = retryOp.maxRetries + 1
        /\ retryOp.waits = [n \in 1..retryOp.maxRetries |-> retryOp.retryDelay * n]

-----------------------------------------------------------------------------
(* Properties of useDebounceCallback *)

\* The call ends a burst: no call follows it before its delay has elapsed
endsBurst(k) ==
    \A j \in (k + 1)..Len(debouncer.calls) :
        debouncer.calls[j].at > debouncer.calls[k].at + debouncer.delay

\* The runs of the callback that the call has caused
runsOf(k) == {n \in 1..Len(debouncer.runs) : debouncer.runs[n].madeBy = k}

\* Every run of the callback has the arguments of a call that no other call
\* followed before the run, and comes delay after that call
runsAfterLastCall ==
    \A n \in 1..Len(debouncer.runs) :
        LET run == debouncer.runs[n]
            k == run.madeBy
        IN /\ run.args = debouncer.calls[k].args
           /\ run.at = debouncer.calls[k].at + debouncer.delay
           /\ \A j \in (k + 1)..Len(debouncer.calls) : debouncer.calls[j].at >= run.at

\* The callback runs once for every burst whose delay has elapsed while the
\* component was mounted, and at most once for any call
oncePerBurst ==
    \A k \in 1..Len(debouncer.calls) :
        /\ Cardinality(runsOf(k)) <= 1
        /\ (/\ endsBurst(k)
            /\ debouncer.time > debouncer.calls[k].at + debouncer.delay
            /\ debouncer.mounted) => Cardinality(runsOf(k)) = 1

\* C19: whatever calls of the debounced function are made, the callback
\* runs once per burst, with the arguments of the burst's last call and
\* delay after it, and no run happens after the component has unmounted.
C19_DebouncedOncePerBurst ==
    /\ runsAfterLastCall
    /\ oncePerBurst
    /\ \A n \in 1..Len(debouncer.runs) : debouncer.runs[n].mounted

-----------------------------------------------------------------------------
(* Properties of useLocalStorage *)

\* The last setValue call left the state at its previous value and
\* dispatched no 'localstorage' event
stateKept ==
    /\ hookLS.storedValue = hookLS.op.prevValue
    /\ hookLS.events = hookLS.op.eventsBefore

\* C20 as stated: whenever a setItem of the storage has thrown inside
\* setValue, be it for the probe item or for the item of the value, the
\* state keeps its previous value and no 'localstorage' event is
\* dispatched.
C20_AnySetItemThrowKeepsState ==
    (hookLS.op.name = "setValue" /\ (hookLS.op.probeThrew \/ hookLS.op.writeThrew))
        => stateKept

\* C20, amended: when the storage is usable (the availability probe is
\* written and removed) and setItem throws for the item of the value, the
\* state keeps its previous value, no 'localstorage' event is dispatched,
\* and the stored item is what it was.
C20_FailedWriteKeepsState ==
    (hookLS.op.name = "setValue" /\ hookLS.op.writeThrew) =>
        /\ stateKept
        /\ localStorage = hookLS.op.storageBefore

\* A setValue with a value other than the state's whose write has thrown
C20_Witness ==
    /\ hookLS.op.name = "setValue"
    /\ hookLS.op.writeThrew
    /\ ~hookLS.op.probeThrew
    /\ hookLS.op.valueToStore # hookLS.op.prevValue


-----------------------------------------------------------------------------
(* Properties of useLocalStorage instances sharing the window *)

\* C21: after a setValue completes in one mounted useLocalStorage instance
\* and its sync event has been delivered, every other mounted instance using
\* the same key holds the same value, and instances using a different key
\* are unchanged.
C21_SameKeyInstancesAgree ==
    hooks.op.dispatched
    => \A j \in Instances :
          hooks.inst[j].isMounted
          => IF hooks.inst[j].key = hooks.op.key
             THEN /\ hooks.inst[j].storedValue = hooks.op.valueToStore
                  /\ hooks.inst[j].storedValue
                        = hooks.inst[hooks.op.sender].storedValue
             ELSE hooks.inst[j].storedValue = hooks.op.before[j]

\* Witness of C21: result1 set a value while result2 and other were mounted
\* and held something else; result2 now holds the value.
C21_Witness ==
    /\ hooks.op.dispatched
    /\ hooks.op.sender = "result1"
    /\ hooks.inst["result2"].isMounted
    /\ hooks.inst["other"].isMounted
    /\ hooks.op.before["result2"] # hooks.op.valueToStore
    /\ hooks.op.before["other"] # hooks.op.valueToStore
    /\ hooks.inst["result2"].storedValue = hooks.op.valueToStore

-----------------------------------------------------------------------------
(* Properties of useLocalStorageCache *)

\* The entries the last setItem call removed, and those it left
removedEntries ==
    (DOMAIN cacheHook.op.storageBefore \cup {cacheHook.op.cacheKey})
        \ DOMAIN localStorage

\* The storage right after the write of the last setItem call, before its
\* removals
afterWrite ==
    [k \in DOMAIN localStorage \cup removedEntries |->
        IF k \in DOMAIN localStorage /\ k # cacheHook.op.cacheKey
        THEN localStorage[k]
        ELSE IF k = cacheHook.op.cacheKey
             THEN JSON_stringify([value |-> "value",
                                  timestamp |-> cacheHook.clock])
             ELSE cacheHook.op.storageBefore[k]]

\* C22: after any sequence of setItem calls on a useLocalStorageCache with
\* limit maxItems, storage holds at most maxItems entries belonging to that
\* cache, and the entries removed to enforce the limit are exactly those
\* with the oldest write timestamps.
C22_LimitKeptByRemovingOldest ==
    /\ Cardinality(allKeys(localStorage)) <= cacheHook.maxItems
    /\ cacheHook.op.wrote
       => /\ removedEntries \subseteq allKeys(afterWrite)
          /\ Cardinality(removedEntries)
               = IF Cardinality(allKeys(afterWrite)) > cacheHook.maxItems
                 THEN Cardinality(allKeys(afterWrite)) - cacheHook.maxItems
                 ELSE 0
          /\ \A r \in removedEntries : \A k \in allKeys(localStorage) :
                timestampOf(afterWrite, r) <= timestampOf(localStorage, k)
          /\ \A k \in DOMAIN localStorage :
                k # cacheHook.op.cacheKey
                => localStorage[k] = cacheHook.op.storageBefore[k]

\* Witness of C22: a setItem wrote a third entry into a cache of two and
\* the entry with the lowest timestamp, written two ticks earlier, is gone.
C22_Witness ==
    /\ cacheHook.op.wrote
    /\ cacheHook.maxItems = 2
    /\ Cardinality(removedEntries) = 1
    /\ \A r \in removedEntries :
          /\ startsWith(r, getCacheKey(<<>>))
          /\ timestampOf(afterWrite, r) + 2 <= cacheHook.clock
    /\ \A k \in allKeys(localStorage) :
          \A r \in removedEntries :
             timestampOf(localStorage, k) > timestampOf(afterWrite, r)

-----------------------------------------------------------------------------
(* Properties of the stored trades *)

\* C23: after any sequence of addTrade, sellTrade, updateTrade and
\* deleteTrade operations, every stored trade has either both sellPrice and
\* sellDate set or neither of them set.
C23_SellLegWholeOrAbsent ==
    \A k \in 1..Len(loadTrades(localStorage)) :
       present(loadTrades(localStorage)[k].sellPrice)
       <=> present(loadTrades(localStorage)[k].sellDate)

\* The ids of the trades of a list
idsOf(trades) == {trades[k].id : k \in 1..Len(trades)}

\* The in-memory trades are the stored trades, id for id, and the filtered
\* list shows stored trades only
memoryMatchesStorage ==
    /\ idsOf(store.trades) = idsOf(loadTrades(localStorage))
    /\ present(store.filteredList)
       => idsOf(store.filteredList[1].trades) \subseteq idsOf(loadTrades(localStorage))

pricedOpenViews ==
    IF present(store.filteredList)
    THEN {k \in 1..Len(store.filteredList[1].trades) :
             /\ store.filteredList[1].trades[k].isOpen
             /\ store.filteredList[1].trades[k].symbol \in DOMAIN store.appliedPrices}
    ELSE {}

\* C25: once updatePrices has applied a price for a symbol, the valuations
\* of that symbol's open trades in the store's filteredList keep using that
\* price after any subsequent addTrade, updateTrade, deleteTrade, sellTrade
\* of another trade, or filterTrades, until the next updatePrices.
C25_AppliedPriceKept ==
    \A k \in pricedOpenViews :
       LET view == store.filteredList[1].trades[k]
       IN view.currentValue = view.quantity * store.appliedPrices[view.symbol]

-----------------------------------------------------------------------------
(* Upstream fetches of one fetchBatchPrices call *)

\* The requests made for a symbol that went upstream: an HTTP request is
\* in flight, or has settled
upstreamFetchesOf(symbol) ==
    {p \in requestsOf(symbol) :
        \/ batch.status[p[1]][p[2]] = "inflight"
        \/ batch.status[p[1]][p[2]] = "settled" /\ batch.kind[p[1]][p[2]] # "memo"}

\* C26: within a single fetchBatchPrices call, at most one upstream fetch is
\* issued per distinct normalized symbol, even when the input list contains
\* the same symbol several times (possibly in different case or with
\* surrounding whitespace).
C26_OneUpstreamFetchPerSymbol ==
    \A k \in 1..Len(batch.normalizedSymbols) :
       Cardinality(upstreamFetchesOf(batch.normalizedSymbols[k])) <= 1

-----------------------------------------------------------------------------
(* Closed trades of the store *)

\* The trades that were closed in storage before the last store operation
closedBefore ==
    {k \in 1..Len(store.op.storedBefore) :
        /\ truthy(store.op.storedBefore[k].sellPrice)
        /\ present(store.op.storedBefore[k].sellDate)}

\* The stored trade is as it was, and its views in the in-memory trades and
\* in filteredList report the gain fixed at its sale
saleKept(was) ==
    /\ \E k \in 1..Len(loadTrades(localStorage)) : loadTrades(localStorage)[k] = was
    /\ \A k \in 1..Len(store.trades) :
          store.trades[k].id = was.id
          => /\ store.trades[k].sellPrice = was.sellPrice
             /\ store.trades[k].sellDate = was.sellDate
             /\ store.trades[k].gain
                  = (was.sellPrice[1] - was.buyPrice) * was.quantity
    /\ present(store.filteredList)
       => \A k \in 1..Len(store.filteredList[1].trades) :
             store.filteredList[1].trades[k].id = was.id
             => /\ store.filteredList[1].trades[k].sellPrice = was.sellPrice
                /\ store.filteredList[1].trades[k].sellDate = was.sellDate
                /\ store.filteredList[1].trades[k].gain
                     = (was.sellPrice[1] - was.buyPrice) * was.quantity

\* sellTrade, updatePrices and filterTrades leave every closed trade as it
\* was
C27_SaleUntouched ==
    store.op.name \in {"sellTrade", "updatePrices", "filterTrades"}
    => \A k \in closedBefore : saleKept(store.op.storedBefore[k])

\* a sellTrade of a closed trade is rejected
C27_SecondSaleRejected ==
    (/\ store.op.name = "sellTrade"
     /\ \E k \in closedBefore : store.op.storedBefore[k].id = store.op.id)
    => /\ store.op.rejected
       /\ loadTrades(localStorage) = store.op.storedBefore

\* C27: once a trade is closed, no later sellTrade, price update or filter
\* operation changes its sellPrice, sellDate or realized gain; a sellTrade
\* on an already-closed trade is rejected and leaves the trade unchanged.
C27_ClosedTradeIsFinal ==
    /\ C27_SaleUntouched
    /\ C27_SecondSaleRejected

-----------------------------------------------------------------------------
(* Properties of useAsyncOperation *)

\* C28: for useAsyncOperation, isLoading is true exactly while at least one
\* execute call started on the hook has not yet settled, including when
\* several execute calls overlap.
C28_LoadingWhilePending ==
    asyncOp.state.isLoading <=> asyncOp.pending # {}

-----------------------------------------------------------------------------
(* Best and worst trade of calculateStats *)

\* C29: for every non-empty trade list, calculateStats returns as bestTrade
\* a trade whose gain is greater than or equal to the gain of every trade in
\* the list, and as worstTrade a trade whose gain is less than or equal to
\* the gain of every trade in the list.
C29_BestAndWorstTrade ==
    (present(val.stats) /\ val.dtos # <<>>)
    => /\ present(val.stats[1].bestTrade)
       /\ present(val.stats[1].worstTrade)
       /\ \E k \in 1..Len(val.dtos) : val.dtos[k] = val.stats[1].bestTrade[1]
       /\ \E k \in 1..Len(val.dtos) : val.dtos[k] = val.stats[1].worstTrade[1]
       /\ \A k \in 1..Len(val.dtos) :
             /\ val.stats[1].bestTrade[1].gain >= val.dtos[k].gain
             /\ val.stats[1].worstTrade[1].gain <= val.dtos[k].gain

-----------------------------------------------------------------------------
(* Properties of storageService.clearCache *)

\* C30: calling storageService.clearCache() with no key removes every
\* storage entry whose key starts with the cache prefix, however many there
\* are, and leaves all other storage keys (including the stored trades)
\* untouched.
C30_ClearCacheRemovesEveryEntry ==
    (storageOp.name = "clearCache" /\ IsNull(storageOp.key))
    => /\ \A k \in DOMAIN localStorage : ~startsWith(k, <<storageCacheKeyPrefix>>)
       /\ \A k \in DOMAIN storageOp.before :
             ~startsWith(k, <<storageCacheKeyPrefix>>)
             => /\ k \in DOMAIN localStorage
                /\ localStorage[k] = storageOp.before[k]

====
